---- MODULE Spec2Model ----
(***************************************************************************)
(* A model of the download task store (YouTubeTaskManager) and of the      *)
(* download orchestrator (YouTubeDownloader) of src/run.py.                *)
(*                                                                         *)
(* Text is modelled by TLA+ strings (sequences of characters): Len, \o and *)
(* SubSeq act on them as Python's len, + and slicing do.                   *)
(***************************************************************************)
EXTENDS Bags, Integers, Sequences, FiniteSets, TLC

(***************************************************************************)
(* Bounds of the model.                                                    *)
(***************************************************************************)
\* The wall clock read by datetime.now() takes the values 0..MaxClock.
MaxClock == 1
\* The task store takes at most MaxOps calls in a run of StoreSpec.
MaxOps == 2
\* add_task is called at most MaxLoopCalls times in a run of LoopSpec.
MaxLoopCalls == 2
\* The task store takes at most MaxUpdateCalls calls in a run of UpdateSpec.
MaxUpdateCalls == 3
\* _extract_youtube_id is applied at most MaxExtractCalls times in a run of
\* ExtractSpec.
MaxExtractCalls == 1
\* The orchestrator takes at most MaxCalls calls in a run of Spec.
MaxCalls == 2

(***************************************************************************)
(* Program constants.                                                      *)
(***************************************************************************)
\* src/run.py:1678, "if counter > 999": the collision loop's give-up bound.
MaxCounter == 999
\* src/run.py:1591, "{11}": the length of a video id.
IdLength == 11
\* src/run.py:174, "retries=3": the attempts the retry wrapper makes.
Retries == 3

Null == "<null>"
None == <<>>
Some(v) == <<v>>

Min(a, b) == IF a <= b THEN a ELSE b
Max(a, b) == IF a >= b THEN a ELSE b

\* Python's s[:n], negative n included (s[:-1] drops the last character).
py_slice_to(s, n) ==
    IF n >= 0 THEN SubSeq(s, 1, Min(n, Len(s)))
    ELSE SubSeq(s, 1, Max(0, Len(s) + n))

\* Python's str(counter) for the non-negative counters of the model.
py_str(n) == ToString(n)

(***************************************************************************)
(* helpers.safe_filename (library code outside src/), after section 4.1 of *)
(* the specification: the illegal characters are removed and the result is *)
(* cut to max_length characters.                                           *)
(***************************************************************************)
NormalizerIllegalChars == {"|", ",", "/", "\\", ":", "*", "?", "<", ">", "\""}

RECURSIVE strip_illegal(_)
strip_illegal(s) ==
    IF Len(s) = 0 THEN ""
    ELSE LET c == SubSeq(s, 1, 1)
             rest == strip_illegal(SubSeq(s, 2, Len(s)))
         IN IF c \in NormalizerIllegalChars THEN rest ELSE c \o rest

safe_filename(s, max_length) == py_slice_to(strip_illegal(s), max_length)

(***************************************************************************)
(* YouTubeTaskManager._extract_youtube_id: re.search of                    *)
(*   (?:v=|youtu\.be/|embed/|watch\?v=)([0-9A-Za-z_-]{11}).*               *)
(* The leftmost position at which a marker is followed by 11 token         *)
(* characters decides; group 1 is those 11 characters.                     *)
(***************************************************************************)
IdMarkers == <<"v=", "youtu.be/", "embed/", "watch?v=">>

IdTokenChars ==
    {"0", "1", "2", "3", "4", "5", "6", "7", "8", "9",
     "A", "B", "C", "D", "E", "F", "G", "H", "I", "J", "K", "L", "M",
     "N", "O", "P", "Q", "R", "S", "T", "U", "V", "W", "X", "Y", "Z",
     "a", "b", "c", "d", "e", "f", "g", "h", "i", "j", "k", "l", "m",
     "n", "o", "p", "q", "r", "s", "t", "u", "v", "w", "x", "y", "z",
     "_", "-"}

\* Whether marker number m matches at position i of url with an id after it.
id_match_at(url, i, m) ==
    LET mk == IdMarkers[m]
        from == i + Len(mk)
    IN /\ from + IdLength - 1 <= Len(url)
       /\ SubSeq(url, i, from - 1) = mk
       /\ \A j \in from .. (from + IdLength - 1) : SubSeq(url, j, j) \in IdTokenChars

\* Group 1 of the leftmost match, given the positions at which a marker
\* matches; "" stands for no match.
id_at_leftmost(video_url, hits) ==
    IF hits = {} THEN ""
    ELSE LET i == CHOOSE p \in hits : \A q \in hits : p <= q
             m == CHOOSE k \in 1 .. Len(IdMarkers) :
                     /\ id_match_at(video_url, i, k)
                     /\ \A l \in 1 .. (k - 1) : ~id_match_at(video_url, i, l)
             from == i + Len(IdMarkers[m])
         IN SubSeq(video_url, from, from + IdLength - 1)

\* An extraction that takes the rightmost match instead of the leftmost.
extract_youtube_id_rightmost(video_url) ==
    LET hits == {i \in 1 .. Len(video_url) :
                    \E m \in 1 .. Len(IdMarkers) : id_match_at(video_url, i, m)}
    IN IF hits = {} THEN ""
       ELSE LET i == CHOOSE p \in hits : \A q \in hits : q <= p
                m == CHOOSE k \in 1 .. Len(IdMarkers) : id_match_at(video_url, i, k)
                from == i + Len(IdMarkers[m])
            IN SubSeq(video_url, from, from + IdLength - 1)

extract_youtube_id(video_url) ==
    CHOOSE id \in {id_at_leftmost(video_url, hits) :
                      hits \in {{i \in 1 .. Len(video_url) :
                                   \E m \in 1 .. Len(IdMarkers) :
                                      id_match_at(video_url, i, m)}}} : TRUE

(***************************************************************************)
(* State.                                                                  *)
(***************************************************************************)
VARIABLES
    rows,   \* the tasks table: its rows, in the order of their ids
    now,    \* the wall clock datetime.now() reads
    fs,     \* the filesystem: directory -> file name -> kind of content
    tm,     \* the task manager: its configuration and its table's sequence
    at,     \* the activation of add_task: its position and local variables
    ops,    \* the number of calls made from outside
    dl,     \* the downloader's attributes (flags, destination directories)
    world,  \* what the fetch collaborator answers, per video and playlist
    run,    \* the activation of run()
    bd,     \* the activation of the batch driver
    rt,     \* the activation of the per-video routine under its retry wrapper
    log     \* the calls made to the fetch collaborator, in order

vars == <<rows, now, fs, tm, at, ops, dl, world, run, bd, rt, log>>

\* The variables of the orchestrator, which the task store leaves alone.
orchestrator_vars == <<dl, world, run, bd, rt, log>>

\* The columns of the tasks table (CREATE TABLE).
Columns ==
    {"id", "youtube_id", "video_url", "suggested_filename_base",
     "final_video_filename", "final_audio_filename", "status",
     "video_filepath", "audio_filepath", "video_hash", "audio_hash",
     "retries", "error_message", "added_date", "last_updated_date"}

\* A directory the task manager was not given (video_dst_dir=None).
NoDir == "<none>"

path_exists(dir, name) == dir \in DOMAIN fs /\ name \in DOMAIN fs[dir]

\* A task_exists that finds no row (its SELECT misses).
task_exists_never(youtube_id) == FALSE

task_exists(youtube_id) ==
    \E i \in 1 .. Len(rows) : rows[i].youtube_id = youtube_id

get_task(youtube_id) ==
    IF \E i \in 1 .. Len(rows) : rows[i].youtube_id = youtube_id
    THEN Some(rows[CHOOSE i \in 1 .. Len(rows) :
                      /\ rows[i].youtube_id = youtube_id
                      /\ \A j \in 1 .. (i - 1) : rows[j].youtube_id # youtube_id])
    ELSE None

\* A collision check that looks on the disk only, not in the table.
filename_collision_exists_disk_only(filename_base) ==
    LET video_name == filename_base \o "." \o tm.video_extension
        audio_name == filename_base \o "." \o tm.audio_extension
    IN \/ path_exists(tm.video_destination_directory, video_name)
       \/ path_exists(tm.audio_destination_directory, audio_name)

\* A collision check that forgets the audio directory.
filename_collision_exists_no_audio(filename_base) ==
    LET video_name == filename_base \o "." \o tm.video_extension
        audio_name == filename_base \o "." \o tm.audio_extension
    IN \/ path_exists(tm.video_destination_directory, video_name)
       \/ \E i \in 1 .. Len(rows) :
              \/ rows[i].final_video_filename = video_name
              \/ rows[i].final_audio_filename = audio_name

filename_collision_exists(filename_base) ==
    LET video_name == filename_base \o "." \o tm.video_extension
        audio_name == filename_base \o "." \o tm.audio_extension
        video_exists ==
            IF tm.video_destination_directory # NoDir
            THEN path_exists(tm.video_destination_directory, video_name)
            ELSE FALSE
        audio_exists ==
            IF tm.audio_destination_directory # NoDir
            THEN path_exists(tm.audio_destination_directory, audio_name)
            ELSE FALSE
    IN IF video_exists \/ audio_exists THEN TRUE
       ELSE \E i \in 1 .. Len(rows) :
                \/ rows[i].final_video_filename = video_name
                \/ rows[i].final_audio_filename = audio_name

\* What datetime.now() can return: the clock as it stands, or one tick later.
clock_reads == {now, Min(now + 1, MaxClock)}

(***************************************************************************)
(* YouTubeTaskManager.update_task.  updates is a dict: a function from     *)
(* keys to values.  Keys that are no column are dropped; with none left    *)
(* the call returns before it reads the clock.                             *)
(***************************************************************************)
updated_row(row, updates, t) ==
    LET valid == {k \in DOMAIN updates : k \in Columns}
    IN [c \in Columns |->
            IF c = "last_updated_date" THEN t
            ELSE IF c \in valid THEN updates[c]
            ELSE row[c]]

\* An update that writes to every row of the table, whatever its id.
update_task_every_row(youtube_id, updates) ==
    LET valid == {k \in DOMAIN updates : k \in Columns}
    IN IF valid = {}
       THEN UNCHANGED <<rows, now>>
       ELSE \E t \in clock_reads :
                /\ now' = t
                /\ rows' = [i \in 1 .. Len(rows) |->
                               updated_row(rows[i], updates, t)]

\* Lines 1560-1562: a table breaks the constraints of its columns when a
\* row has no youtube_id or no video_url (NOT NULL), or two rows have one id
\* (PRIMARY KEY) or one youtube_id (UNIQUE).
violates_constraints(table) ==
    \/ \E i \in 1 .. Len(table) :
           table[i].youtube_id = Null \/ table[i].video_url = Null
    \/ \E i, j \in 1 .. Len(table) :
           /\ i # j
           /\ \/ table[i].id = table[j].id
              \/ table[i].youtube_id = table[j].youtube_id

\* The rows of a table whose ids differ, in the order of their ids.
by_rowid(table) ==
    LET held == {table[i] : i \in 1 .. Len(table)}
    IN [k \in 1 .. Len(table) |->
           CHOOSE row \in held :
               Cardinality({other \in held : other.id < row.id}) = k - 1]

\* Lines 1614-1636.  The clock is read before the UPDATE; an UPDATE that
\* breaks a constraint raises sqlite3.IntegrityError, which is caught and
\* logged, and the table stays as it was.  (An id given in updates is an
\* integer.)
update_task(youtube_id, updates) ==
    LET valid == {k \in DOMAIN updates : k \in Columns}
    IN IF valid = {}
       THEN UNCHANGED <<rows, now>>
       ELSE \E t \in clock_reads :
                LET written == [i \in 1 .. Len(rows) |->
                                   IF rows[i].youtube_id = youtube_id
                                   THEN updated_row(rows[i], updates, t)
                                   ELSE rows[i]]
                IN /\ now' = t
                   /\ rows' = IF violates_constraints(written)
                              THEN rows
                              ELSE by_rowid(written)

(***************************************************************************)
(* YouTubeTaskManager.add_task.  at holds the call's local variables; it   *)
(* is kept after the return (pc = "done") as the record of the call.       *)
(***************************************************************************)
AtIdle ==
    [pc |-> "idle", caller |-> "", video_url |-> "", video_title |-> "",
     max_file_length |-> 0, youtube_id |-> "", suggested_filename_base |-> "",
     counter |-> 0, final_filename_base |-> "", tested |-> 0, ret |-> None,
     rows0 |-> <<>>]

\* Lines 1642-1660: the id, the existing row, the suggested base.
add_task_entry(caller, video_url, video_title, max_file_length) ==
    LET youtube_id == extract_youtube_id(video_url)
        suggested_filename_base == safe_filename(video_title, max_file_length)
        frame == [AtIdle EXCEPT !.caller = caller, !.video_url = video_url,
                                !.video_title = video_title,
                                !.max_file_length = max_file_length,
                                !.youtube_id = youtube_id, !.rows0 = rows]
    IN IF youtube_id = ""
       THEN [frame EXCEPT !.pc = "done", !.ret = None]
       ELSE IF task_exists(youtube_id)
       THEN [frame EXCEPT !.pc = "done", !.ret = get_task(youtube_id)]
       ELSE [frame EXCEPT !.pc = "loop",
                          !.suggested_filename_base = suggested_filename_base,
                          !.counter = 0,
                          !.final_filename_base = suggested_filename_base]

\* Lines 1666-1675: the candidate for a counter, cut to make room for the suffix.
candidate_name(base_name_for_uniqueness, counter, max_file_length) ==
    LET suffix == "_" \o py_str(counter)
    IN IF Len(base_name_for_uniqueness) + Len(suffix) > max_file_length
       THEN py_slice_to(base_name_for_uniqueness, max_file_length - Len(suffix))
                \o suffix
       ELSE base_name_for_uniqueness \o suffix

\* A give-up test that lets the loop run one counter further.
counter_exhausted_late(counter) == counter > MaxCounter + 1

\* Line 1678: whether the loop gives up at this counter.
counter_exhausted(counter) == counter > MaxCounter

\* Lines 1664-1683: the body of one turn of the collision loop.
loop_turn(frame) ==
    LET counter == frame.counter + 1
        final_filename_base ==
            candidate_name(frame.suggested_filename_base, counter,
                           frame.max_file_length)
    IN IF counter_exhausted(counter)
       THEN [frame EXCEPT !.pc = "done", !.counter = counter,
                          !.final_filename_base = final_filename_base,
                          !.tested = @ + 1, !.ret = None]
       ELSE [frame EXCEPT !.counter = counter,
                          !.final_filename_base = final_filename_base,
                          !.tested = @ + 1]

\* Line 1561, INTEGER PRIMARY KEY AUTOINCREMENT: the id of a new row is one
\* more than the largest id the table holds or has ever given out.
next_rowid ==
    LET used == {tm.sqlite_sequence} \cup {rows[i].id : i \in 1 .. Len(rows)}
    IN (CHOOSE id \in used : \A other \in used : other <= id) + 1

\* The row the INSERT of lines 1687-1702 writes.
new_row(frame, t) ==
    [id |-> next_rowid,
     youtube_id |-> frame.youtube_id,
     video_url |-> frame.video_url,
     suggested_filename_base |-> frame.suggested_filename_base,
     final_video_filename |-> frame.final_filename_base \o "." \o tm.video_extension,
     final_audio_filename |-> frame.final_filename_base \o "." \o tm.audio_extension,
     status |-> "pending",
     video_filepath |-> Null, audio_filepath |-> Null,
     video_hash |-> Null, audio_hash |-> Null,
     retries |-> 0, error_message |-> Null,
     added_date |-> t, last_updated_date |-> t]

\* Lines 1685-1715: the row is inserted and read back.  The UNIQUE constraint
\* on youtube_id makes the INSERT raise IntegrityError, and None is returned.
add_task_insert(frame) ==
    \E t \in clock_reads :
       /\ now' = t
       /\ IF \E i \in 1 .. Len(rows) : rows[i].youtube_id = frame.youtube_id
          THEN /\ rows' = rows
               /\ tm' = tm
               /\ at' = [frame EXCEPT !.pc = "done", !.tested = @ + 1, !.ret = None]
          ELSE /\ rows' = Append(rows, new_row(frame, t))
               /\ tm' = [tm EXCEPT !.sqlite_sequence = next_rowid]
               /\ at' = [frame EXCEPT !.pc = "done", !.tested = @ + 1,
                                      !.ret = Some(new_row(frame, t))]

\* The candidate the loop tests on its turn number k (the suggested base first).
tested_candidate(frame, k) ==
    IF k = 0 THEN frame.suggested_filename_base
    ELSE candidate_name(frame.suggested_filename_base, k, frame.max_file_length)

\* Lines 1663-1683 as a whole: the loop leaves at the first counter whose
\* candidate does not collide, having tested the candidates before it in order,
\* or gives up on the turn that exhausts the counter.  (The loop runs a
\* thousand turns; this is the frame its last turn leaves.)
collision_loop(frame) ==
    LET collides(k) == filename_collision_exists(tested_candidate(frame, k))
        leaves(k) == ~counter_exhausted(k) /\ ~collides(k)
    IN IF \E k \in 0 .. MaxCounter : leaves(k)
       THEN LET k == CHOOSE c \in 0 .. MaxCounter :
                        leaves(c) /\ \A d \in 0 .. (c - 1) : ~leaves(d)
            IN [frame EXCEPT !.counter = k,
                             !.final_filename_base = tested_candidate(frame, k),
                             !.tested = k]
       ELSE loop_turn([frame EXCEPT !.counter = MaxCounter,
                                    !.tested = MaxCounter])

\* add_task as one step: the call made by caller, up to its return.
add_task(caller, video_url, video_title, max_file_length) ==
    \E entry \in {add_task_entry(caller, video_url, video_title, max_file_length)} :
       IF entry.pc = "done"
       THEN at' = entry /\ UNCHANGED <<rows, now, tm>>
       ELSE \E left \in {collision_loop(entry)} :
               IF left.pc = "done"
               THEN at' = left /\ UNCHANGED <<rows, now, tm>>
               ELSE add_task_insert(left)

(***************************************************************************)
(* YouTubeDownloader.__init__: the attributes the orchestrator reads.  The *)
(* default destination directories have a Japanese name in the source;     *)
(* "enka" stands for it here.                                              *)
(***************************************************************************)
BasePath == "./drive/MyDrive/"
DefaultVideoDir == BasePath \o "enka"
DefaultAudioDir == BasePath \o "enka-Audio"

\* temp_download_folder, and the working directory relative names fall in.
TempFolder == "."

DefaultDownloader ==
    [max_file_length |-> 255,
     dry_run |-> FALSE,
     base_path |-> BasePath,
     video_destination_directory |-> DefaultVideoDir,
     audio_destination_directory |-> DefaultAudioDir,
     download_captions |-> TRUE,
     download_video |-> TRUE,
     video_extension |-> "mp4",
     keep_original_video |-> FALSE,
     download_audio |-> TRUE,
     audio_extension |-> "mp3",
     audio_mime_type |-> "mp4",
     keep_original_audio |-> FALSE,
     reconvert_media |-> TRUE,
     enable_playlist_download |-> TRUE]

\* Lines 166-172: the task manager is given the directories and extensions
\* the downloader has when it is constructed.
task_manager_of(d) ==
    [video_destination_directory |-> d.video_destination_directory,
     audio_destination_directory |-> d.audio_destination_directory,
     video_extension |-> d.video_extension,
     audio_extension |-> d.audio_extension,
     sqlite_sequence |-> 0]

\* os.path.join of a directory and a name.
path_join(dir, name) ==
    IF Len(dir) > 0 /\ SubSeq(dir, Len(dir), Len(dir)) = "/"
    THEN dir \o name
    ELSE dir \o "/" \o name

(***************************************************************************)
(* The filesystem.  A file has a kind of content: "video" (a video track   *)
(* only), "av" (a video track and an audio track), "audio", "text".        *)
(***************************************************************************)
files_in(f, dir) == IF dir \in DOMAIN f THEN DOMAIN f[dir] ELSE {}

\* Files of the given names and kind are written in dir (made if missing).
fs_write(f, dir, names, kind) ==
    [d \in DOMAIN f \cup {dir} |->
        IF d = dir
        THEN [n \in files_in(f, dir) \cup names |->
                 IF n \in names THEN kind ELSE f[dir][n]]
        ELSE f[d]]

\* os.remove.
fs_remove(f, dir, name) ==
    [d \in DOMAIN f |->
        IF d = dir THEN [n \in DOMAIN f[d] \ {name} |-> f[d][n]] ELSE f[d]]

\* shutil.move of an existing file.
fs_move(f, from_dir, from_name, to_dir, to_name) ==
    IF from_dir = to_dir /\ from_name = to_name THEN f
    ELSE fs_remove(fs_write(f, to_dir, {to_name}, f[from_dir][from_name]),
                   from_dir, from_name)

\* os.makedirs(dir, exist_ok=True).
fs_makedirs(f, dir) == fs_write(f, dir, {}, "")

\* _calculate_file_hash: "" for a missing file, else the digest of the content.
calculate_file_hash(f, dir, name) ==
    IF dir \in DOMAIN f /\ name \in DOMAIN f[dir]
    THEN "sha256:" \o f[dir][name]
    ELSE ""

(***************************************************************************)
(* The fetch collaborator (pytubefix), as the orchestrator sees it.  The   *)
(* world gives, per video id, what each operation answers, and per         *)
(* playlist URL its title and members.                                     *)
(***************************************************************************)
PlainVideo ==
    [avail |-> "ok",            \* what check_availability does: "ok", or it
                                \* raises "VideoUnavailable", "BotDetection",
                                \* "Exception"; "flaky" raises on attempt 1
     titles |-> {"abc"},        \* what title() may return
     length_raises |-> FALSE,
     captions_raise |-> FALSE,
     caption_codes |-> {"en"},  \* the caption tracks
     streams_raise |-> FALSE,
     video_stream |-> "specific",   \* the first filter that finds a stream:
                                    \* "specific", "fallback", or "none"
     video_download |-> "ok",       \* or "fail"
     video_kind |-> "video",        \* the content of the downloaded file
     extract_raises |-> FALSE,      \* VideoFileClip(...) raises in the audio step
     audio_streams |->              \* what the three audio queries find,
        [specific |-> "itag140",    \* "" for nothing: mime type and bitrate,
         subtype |-> "itag139",     \* audio only of the subtype,
         any |-> "itag251"],        \* any audio only
     audio_download |-> "ok",
     write_audio |-> "ok",
     merge |-> "ok"]            \* or the step that raises: "load",
                                \* "load_audio", "write", "remove", "move"

NoWorld == [videos |-> <<>>, playlists |-> <<>>]

behaviour(url) == world.videos[extract_youtube_id(url)]

\* str(e) of the exception of a kind.
exception_message(kind) == kind \o " raised"

\* YouTube.watch_url.
watch_url(video_id) == "https://youtube.com/watch?v=" \o video_id

\* The log with the operations invoked on the collaborator for url added.
fetched(l, url, operations) ==
    l \o [i \in 1 .. Len(operations) |-> [url |-> url, op |-> operations[i]]]

\* AsyncYouTube(url) and check_availability(): "ok" or the exception raised.
availability(url, attempt) ==
    LET a == behaviour(url).avail
    IN IF a = "flaky" THEN (IF attempt = 1 THEN "Exception" ELSE "ok") ELSE a

\* title(): it raises for a video that is not available.
title_outcome(url) ==
    LET a == behaviour(url).avail
    IN IF a \in {"ok", "flaky"} THEN "ok" ELSE a

(***************************************************************************)
(* The activations.  A frame holds the position (pc) and local variables   *)
(* of a call; rows0, fs0 and log0 record what the call found on entry.     *)
(***************************************************************************)
RunIdle ==
    [pc |-> "idle", playlists |-> <<>>, k |-> 0,
     original_global_video_dst |-> "", original_global_audio_dst |-> "",
     entry_video_dst |-> "", entry_audio_dst |-> ""]

BdIdle ==
    [pc |-> "idle", caller |-> "", videos |-> <<>>, i |-> 0, video_url |-> "",
     youtube_id |-> "", task |-> None, created |-> FALSE, video_title |-> "",
     handled |-> "", rows0 |-> <<>>, fs0 |-> <<>>, log0 |-> 0]

RtIdle ==
    [pc |-> "idle", caller |-> "", url |-> "", attempt |-> 0,
     youtube_id |-> "", task |-> None, video_title |-> "",
     audio_clip |-> "", audio_stream |-> "",
     opened |-> {}, closed |-> {},
     captions_attempted |-> {},
     result |-> "", exc |-> "", err |-> "",
     entry_status |-> "", rows0 |-> <<>>, fs0 |-> <<>>, log0 |-> 0]

(***************************************************************************)
(* The task store driven directly, as the tests of test_run_script.py do.  *)
(***************************************************************************)
TokenA == "AAAAAAAAAAA"
TokenB == "BBBBBBBBBBB"

StoreUrls ==
    {"https://www.youtube.com/watch?v=" \o TokenA,
     "https://youtu.be/" \o TokenA,
     "https://www.youtube.com/embed/" \o TokenB,
     "https://www.youtube.com/playlist"}

StoreTitles == {"abc", "a:bd"}

StoreMaxLengths == {1, 3, 255}

StoreUpdates ==
    {[status |-> "completed", video_filepath |-> "/path/to/video.mp4"],
     [status |-> "failed", error_message |-> "boom"],
     [status |-> "in_progress", bogus |-> "x"],
     [bogus |-> "x"]}

\* The names that make every candidate of base collide (no cut needed).
full_directory(base, ext) ==
    {base \o "." \o ext} \cup
    {base \o "_" \o py_str(k) \o "." \o ext : k \in 1 .. MaxCounter}

StoreTm ==
    [video_destination_directory |-> "dummy_video",
     audio_destination_directory |-> "dummy_audio",
     video_extension |-> "mp4", audio_extension |-> "mp3",
     sqlite_sequence |-> 0]

\* A directory holding files of the given names.
directory_of(names, kind) == [n \in names |-> kind]

StoreFilesystems ==
    {[dummy_video |-> directory_of({}, "video"),
      dummy_audio |-> directory_of({}, "audio")],
     [dummy_video |-> directory_of({"abc.mp4"}, "video"),
      dummy_audio |-> directory_of({"abc_1.mp3"}, "audio")],
     [dummy_video |-> directory_of(full_directory("abc", "mp4"), "video"),
      dummy_audio |-> directory_of({}, "audio")]}

StoreInit ==
    /\ rows = <<>>
    /\ now = 0
    /\ fs \in StoreFilesystems
    /\ tm = StoreTm
    /\ at = AtIdle
    /\ ops = 0
    /\ dl = DefaultDownloader
    /\ world = NoWorld
    /\ run = RunIdle
    /\ bd = BdIdle
    /\ rt = RtIdle
    /\ log = <<>>

store_add_task(video_url, video_title, max_file_length) ==
    /\ ops < MaxOps
    /\ ops' = ops + 1
    /\ add_task("store", video_url, video_title, max_file_length)
    /\ UNCHANGED fs
    /\ UNCHANGED orchestrator_vars

store_update_task(youtube_id, updates) ==
    /\ ops < MaxOps
    /\ ops' = ops + 1
    /\ update_task(youtube_id, updates)
    /\ at' = AtIdle
    /\ UNCHANGED <<fs, tm>>
    /\ UNCHANGED orchestrator_vars

StoreNext ==
    \/ \E u \in StoreUrls, t \in StoreTitles, m \in StoreMaxLengths :
          store_add_task(u, t, m)
    \/ \E id \in {TokenA, TokenB}, u \in StoreUpdates : store_update_task(id, u)

StoreSpec == StoreInit /\ [][StoreNext]_vars

(***************************************************************************)
(* Properties of the task store.                                           *)
(***************************************************************************)
\* The call add_task has just returned from found a row for its id.
add_task_found_row ==
    /\ at.pc = "done"
    /\ at.youtube_id # ""
    /\ \E i \in 1 .. Len(at.rows0) : at.rows0[i].youtube_id = at.youtube_id

\* The call add_task has just returned from inserted a row (the last one).
add_task_inserted ==
    /\ at.pc = "done"
    /\ at.ret # None
    /\ Len(rows) = Len(at.rows0) + 1

\* C1: the table holds at most one row per youtube_id, and an add_task call
\* whose URL yields an id that already has a row inserts nothing, leaves the
\* table as it was and returns that row.
C1_OneRowPerId ==
    /\ \A i, j \in 1 .. Len(rows) :
          rows[i].youtube_id = rows[j].youtube_id => i = j
    /\ add_task_found_row =>
          /\ rows = at.rows0
          /\ \E i \in 1 .. Len(rows) :
                rows[i].youtube_id = at.youtube_id /\ at.ret = Some(rows[i])

\* C1's case: add_task is called for an id that has a row, with another URL
\* shape and another title than the ones the row was made from.
C1_Witness ==
    /\ add_task_found_row
    /\ \E i \in 1 .. Len(rows) :
          /\ rows[i].youtube_id = at.youtube_id
          /\ rows[i].video_url # at.video_url
          /\ rows[i].suggested_filename_base #
                safe_filename(at.video_title, at.max_file_length)

\* C6: no two rows have the same final_video_filename and no two have the same
\* final_audio_filename.
C6_FinalNamesUnique ==
    \A i, j \in 1 .. Len(rows) :
        i # j => /\ rows[i].final_video_filename # rows[j].final_video_filename
                 /\ rows[i].final_audio_filename # rows[j].final_audio_filename

\* C6's case: two rows made from the same title for different video ids.
C6_Witness ==
    \E i, j \in 1 .. Len(rows) :
        /\ i # j
        /\ rows[i].youtube_id # rows[j].youtube_id
        /\ rows[i].suggested_filename_base = rows[j].suggested_filename_base

\* Whether a base collides, as C8 puts it: a video or audio file with that base
\* is in the task manager's directories, or a row of the table add_task found
\* has that final video or final audio filename.
c8_collides(base) ==
    \/ base \o ".mp4" \in DOMAIN fs[tm.video_destination_directory]
    \/ base \o ".mp3" \in DOMAIN fs[tm.audio_destination_directory]
    \/ \E i \in 1 .. Len(at.rows0) :
          \/ at.rows0[i].final_video_filename = base \o ".mp4"
          \/ at.rows0[i].final_audio_filename = base \o ".mp3"

c8_suffixed(base, k) == base \o "_" \o ToString(k)

\* C8: the final base add_task assigns is the suggested base when that does
\* not collide, and otherwise the suggested base followed by _k for the
\* smallest k >= 1 whose candidate does not collide (when that candidate fits
\* in max_file_length, so that nothing is cut).
C8_SmallestFreeSuffix ==
    add_task_inserted =>
        LET r == rows[Len(rows)]
            base == r.suggested_filename_base
            free(k) == ~c8_collides(c8_suffixed(base, k))
        IN /\ ~c8_collides(base) => r.final_video_filename = base \o ".mp4"
           /\ \A k \in 1 .. MaxCounter :
                 ( /\ c8_collides(base)
                   /\ free(k)
                   /\ \A j \in 1 .. (k - 1) : ~free(j)
                   /\ Len(c8_suffixed(base, k)) <= at.max_file_length )
                 => /\ r.final_video_filename = c8_suffixed(base, k) \o ".mp4"
                    /\ r.final_audio_filename = c8_suffixed(base, k) \o ".mp3"

\* C8's case: the suggested base and its first two suffixed candidates collide
\* (a video file, an audio file, a row), and _3 is assigned.
C8_Witness ==
    /\ add_task_inserted
    /\ LET r == rows[Len(rows)]
       IN /\ r.final_video_filename = r.suggested_filename_base \o "_3.mp4"
          /\ r.suggested_filename_base \o ".mp4"
                \in DOMAIN fs[tm.video_destination_directory]
          /\ r.suggested_filename_base \o "_1.mp3"
                \in DOMAIN fs[tm.audio_destination_directory]
          /\ \E i \in 1 .. Len(at.rows0) :
                at.rows0[i].final_video_filename =
                    r.suggested_filename_base \o "_2.mp4"

\* C10: the final filename base add_task stores is at most max_file_length
\* characters long.
C10_FinalBaseWithinMaxLength ==
    add_task_inserted =>
        Len(rows[Len(rows)].final_video_filename)
            <= at.max_file_length + Len("." \o tm.video_extension)

(***************************************************************************)
(* update_task called on a table of up to two rows, as test_update_task    *)
(* does after its add_task.                                                *)
(***************************************************************************)
UpdateUrls ==
    {"https://www.youtube.com/watch?v=" \o TokenA,
     "https://www.youtube.com/embed/" \o TokenB}

upd_add_task(video_url, video_title) ==
    /\ ops < MaxUpdateCalls
    /\ ops' = ops + 1
    /\ add_task("store", video_url, video_title, 60)
    /\ UNCHANGED fs
    /\ UNCHANGED orchestrator_vars

upd_update_task(youtube_id, updates) ==
    /\ ops < MaxUpdateCalls
    /\ ops' = ops + 1
    /\ update_task(youtube_id, updates)
    /\ at' = AtIdle
    /\ UNCHANGED <<fs, tm>>
    /\ UNCHANGED orchestrator_vars

\* Updates that name a column with a constraint.
KeyUpdates ==
    {[id |-> 2], [id |-> 4], [youtube_id |-> TokenB], [video_url |-> Null]}

UpdateInputs == StoreUpdates \cup KeyUpdates

UpdateNext ==
    \/ \E u \in UpdateUrls, t \in StoreTitles : upd_add_task(u, t)
    \/ \E id \in {TokenA, TokenB}, u \in UpdateInputs : upd_update_task(id, u)

UpdateSpec == StoreInit /\ [][UpdateNext]_vars

\* What a call update_task(youtube_id, updates) may change and what it must
\* leave as it was.
update_task_frame(youtube_id, updates) ==
    LET valid == DOMAIN updates \cap Columns
        kept == Columns \ (valid \cup {"last_updated_date"})
    IN /\ Len(rows') = Len(rows)
       /\ \A i \in 1 .. Len(rows) :
             IF rows[i].youtube_id # youtube_id
             THEN \E j \in 1 .. Len(rows') : rows'[j] = rows[i]
             ELSE \E j \in 1 .. Len(rows') :
                     \A c \in kept : rows'[j][c] = rows[i][c]
       /\ valid = {} => rows' = rows /\ now' = now

\* C11: update_task(id, updates) changes no row but the one of that id,
\* adds and removes no row, and in that row changes only the columns that
\* updates names and last_updated_date; when updates names no column the
\* store stays as it was, last_updated_date and the clock included.
C11_UpdateTouchesOnlyItsRow ==
    [][\A id \in {TokenA, TokenB}, u \in UpdateInputs :
          upd_update_task(id, u) => update_task_frame(id, u)]_vars

\* Two rows, the first one updated to failed by the last call, the second
\* one as add_task wrote it.
C11_Witness ==
    /\ at = AtIdle
    /\ Len(rows) = 2
    /\ rows[1].status = "failed"
    /\ rows[1].error_message = "boom"
    /\ rows[1].video_filepath = Null
    /\ rows[2].status = "pending"
    /\ rows[2].error_message = Null

(***************************************************************************)
(* add_task with its collision loop taken one turn at a time.              *)
(***************************************************************************)
LoopUrls ==
    {"https://www.youtube.com/watch?v=" \o TokenA,
     "https://www.youtube.com/embed/" \o TokenB}

LoopMaxLengths == {3, 255}

loop_call(video_url, video_title, max_file_length) ==
    /\ at.pc \in {"idle", "done"}
    /\ ops < MaxLoopCalls
    /\ ops' = ops + 1
    /\ at' = add_task_entry("loop", video_url, video_title, max_file_length)
    /\ UNCHANGED <<rows, now, fs, tm>>
    /\ UNCHANGED orchestrator_vars

\* "while self._filename_collision_exists(final_filename_base)": one turn.
loop_step ==
    /\ at.pc = "loop"
    /\ filename_collision_exists(at.final_filename_base)
    /\ at' = loop_turn(at)
    /\ UNCHANGED <<rows, now, fs, tm, ops>>
    /\ UNCHANGED orchestrator_vars

\* The loop's condition is false: the code after the loop.
loop_insert ==
    /\ at.pc = "loop"
    /\ ~filename_collision_exists(at.final_filename_base)
    /\ add_task_insert(at)
    /\ UNCHANGED <<fs, ops>>
    /\ UNCHANGED orchestrator_vars

LoopNext ==
    \/ \E u \in LoopUrls, t \in StoreTitles, m \in LoopMaxLengths : loop_call(u, t, m)
    \/ loop_step
    \/ loop_insert

\* The code runs on: a started call takes its next step.
LoopSpec == StoreInit /\ [][LoopNext]_vars /\ WF_vars(loop_step \/ loop_insert)

\* The one-step form of add_task and the loop taken turn by turn end the same.
LoopFormsAgree ==
    at.pc = "loop" =>
        LET left == collision_loop([at EXCEPT !.counter = 0, !.tested = 0,
                        !.final_filename_base = at.suggested_filename_base])
        IN /\ at.counter <= left.counter
           /\ left.pc = "loop" /\ at.counter = left.counter =>
                 at.final_filename_base = left.final_filename_base
                 /\ at.tested = left.tested
           /\ left.pc = "done" /\ at.counter = MaxCounter =>
                 loop_turn(at) = left

(***************************************************************************)
(* Properties of the collision loop.                                       *)
(***************************************************************************)
\* The call of add_task entered its loop: its URL has an id without a row.
loop_entered == at.youtube_id # "" /\ ~\E i \in 1 .. Len(at.rows0) :
                                          at.rows0[i].youtube_id = at.youtube_id

\* Every candidate the loop may test collides: the suggested base and the
\* candidates for the suffixes _1 .. _999.
all_candidates_collide ==
    \A k \in 0 .. 999 :
        c8_collides(IF k = 0 THEN at.suggested_filename_base
                    ELSE candidate_name(at.suggested_filename_base, k,
                                        at.max_file_length))

\* C9: add_task ends.  Its loop tests at most the 1000 candidates (the
\* suggested base and _1 .. _999), one more on each turn; a call that entered
\* the loop comes to its end; and when all the candidates collide it returns
\* None and inserts no row (and it gives up in that case only).
C9_LoopEnds ==
    /\ [](at.tested <= 1000)
    /\ [](at.pc = "loop" => at.tested = at.counter /\ at.counter <= 999)
    /\ [](at.pc = "done" /\ loop_entered =>
             (all_candidates_collide <=> at.ret = None /\ rows = at.rows0))
    /\ (at.pc = "loop") ~> (at.pc = "done")

\* C9's case: all the 1000 candidates collided and add_task gave up.
C9_Witness ==
    /\ at.pc = "done"
    /\ loop_entered
    /\ at.tested = 1000
    /\ at.ret = None

(***************************************************************************)
(* YouTubeDownloader._download_youtube_video under the retry wrapper of    *)
(* _retry_function(retries=3, delay=5).                                    *)
(***************************************************************************)
\* A completed test that never holds (the early return is never taken).
already_completed_never(task) == FALSE

\* Line 423: the task is there and its status is completed.
already_completed(task) ==
    IF task = None THEN FALSE ELSE task[1].status = "completed"

\* Lines 298-303: the wrapper is called and makes its first attempt.
routine_call(caller, url) ==
    LET task == get_task(extract_youtube_id(url))
    IN [RtIdle EXCEPT !.pc = "enter", !.caller = caller, !.url = url,
                      !.attempt = 1,
                      !.entry_status = IF task = None THEN "" ELSE task[1].status,
                      !.rows0 = rows, !.fs0 = fs, !.log0 = Len(log)]

\* The routine returns value: the wrapper returns it to its caller.
returned(frame, value) == [frame EXCEPT !.pc = "ended", !.result = value]

\* The routine raises an exception of a kind: the wrapper catches it.
raised(frame, kind) ==
    [frame EXCEPT !.pc = "raised", !.exc = kind, !.err = exception_message(kind)]

\* os.path.splitext(name)[0].
splitext_base(name) ==
    LET dots == {i \in 2 .. Len(name) :
                    /\ SubSeq(name, i, i) = "."
                    /\ \E j \in 1 .. (i - 1) : SubSeq(name, j, j) # "."}
    IN IF dots = {} THEN name
       ELSE SubSeq(name, 1, (CHOOSE i \in dots : \A j \in dots : j <= i) - 1)

\* Lines 478-482, 595-597, 763-765: the names the routine works with.
video_full_filename(frame) == frame.task[1].final_video_filename
audio_full_filename_with_ext(frame) == frame.task[1].final_audio_filename
audio_filename_base_for_mime(frame) ==
    splitext_base(audio_full_filename_with_ext(frame))
original_audio_filename(frame) ==
    audio_filename_base_for_mime(frame) \o "." \o dl.audio_mime_type
merged_video_temp_filename(frame) ==
    audio_filename_base_for_mime(frame) \o "_merged." \o dl.video_extension

\* A routine that marks its task failed and raises.
fail_task_raising(message) ==
    /\ update_task(rt.youtube_id, [status |-> "failed", error_message |-> message])
    /\ rt' = raised(rt, "Exception")

\* The routine marks its task failed and returns False.
fail_task(message) ==
    /\ update_task(rt.youtube_id, [status |-> "failed", error_message |-> message])
    /\ rt' = returned(rt, "False")

\* The same from a frame in which locals of the step have been set.
fail_task_from(frame, message) ==
    /\ update_task(frame.youtube_id,
                   [status |-> "failed", error_message |-> message])
    /\ rt' = returned(frame, "False")

\* An entry that raises for a reference without an id.
dl_enter_raising ==
    /\ rt.pc = "enter"
    /\ LET youtube_id == extract_youtube_id(rt.url)
           task == get_task(youtube_id)
       IN rt' = IF youtube_id = "" THEN raised(rt, "Exception")
                ELSE IF already_completed(task)
                THEN returned([rt EXCEPT !.youtube_id = youtube_id,
                                         !.task = task], "True")
                ELSE [rt EXCEPT !.pc = "init", !.youtube_id = youtube_id,
                                !.task = task]
    /\ UNCHANGED <<rows, now, fs, tm, at, ops, dl, world, run, bd, log>>

\* Lines 417-427.
dl_enter ==
    /\ rt.pc = "enter"
    /\ LET youtube_id == extract_youtube_id(rt.url)
           task == get_task(youtube_id)
       IN rt' = IF youtube_id = "" THEN returned(rt, "False")
                ELSE IF already_completed(task)
                THEN returned([rt EXCEPT !.youtube_id = youtube_id,
                                         !.task = task], "True")
                ELSE [rt EXCEPT !.pc = "init", !.youtube_id = youtube_id,
                                !.task = task]
    /\ UNCHANGED <<rows, now, fs, tm, at, ops, dl, world, run, bd, log>>

\* Lines 429-457.
dl_init ==
    /\ rt.pc = "init"
    /\ log' = fetched(log, rt.url, <<"construct", "check_availability">>)
    /\ LET outcome == availability(rt.url, rt.attempt)
       IN IF outcome = "ok"
          THEN /\ rt' = [rt EXCEPT !.pc = "title"]
               /\ UNCHANGED <<rows, now>>
          ELSE /\ IF rt.task # None
                  THEN update_task(rt.youtube_id,
                                   [status |-> "failed",
                                    error_message |-> exception_message(outcome)])
                  ELSE UNCHANGED <<rows, now>>
               /\ rt' = raised(rt, outcome)
    /\ UNCHANGED <<fs, tm, at, ops, dl, world, run, bd>>

\* Lines 459-463.
dl_title ==
    /\ rt.pc = "title"
    /\ log' = fetched(log, rt.url, <<"title">>)
    /\ IF title_outcome(rt.url) # "ok"
       THEN /\ rt' = raised(rt, title_outcome(rt.url))
            /\ UNCHANGED <<rows, now, tm, at>>
       ELSE \E video_title \in behaviour(rt.url).titles :
               IF rt.task = None
               THEN /\ add_task("routine", rt.url, video_title, dl.max_file_length)
                    /\ rt' = IF at'.ret = None
                             THEN returned([rt EXCEPT !.video_title = video_title],
                                           "False")
                             ELSE [rt EXCEPT !.pc = "mark",
                                             !.video_title = video_title,
                                             !.task = at'.ret]
               ELSE /\ rt' = [rt EXCEPT !.pc = "mark", !.video_title = video_title]
                    /\ UNCHANGED <<rows, now, tm, at>>
    /\ UNCHANGED <<fs, ops, dl, world, run, bd>>

\* A routine that goes on to the captions in a dry run too.
dl_mark_ignoring_dry_run ==
    /\ rt.pc = "mark"
    /\ update_task(rt.youtube_id, [status |-> "in_progress"])
    /\ log' = fetched(log, rt.url, <<"length">>)
    /\ rt' = IF behaviour(rt.url).length_raises THEN raised(rt, "Exception")
             ELSE [rt EXCEPT !.pc = "captions"]
    /\ UNCHANGED <<fs, tm, at, ops, dl, world, run, bd>>

\* Lines 465-470.
dl_mark ==
    /\ rt.pc = "mark"
    /\ update_task(rt.youtube_id, [status |-> "in_progress"])
    /\ log' = fetched(log, rt.url, <<"length">>)
    /\ rt' = IF behaviour(rt.url).length_raises THEN raised(rt, "Exception")
             ELSE IF dl.dry_run THEN [rt EXCEPT !.pc = "dry_run"]
             ELSE [rt EXCEPT !.pc = "captions"]
    /\ UNCHANGED <<fs, tm, at, ops, dl, world, run, bd>>

\* Lines 470-475.
dl_dry_run ==
    /\ rt.pc = "dry_run"
    /\ update_task(rt.youtube_id,
                   [status |-> "completed", error_message |-> "Dry run"])
    /\ rt' = returned(rt, "True")
    /\ UNCHANGED <<fs, tm, at, ops, dl, world, run, bd, log>>

\* A routine that exports the captions whatever download_captions is.
dl_captions_always ==
    /\ rt.pc = "captions"
    /\ LET b == behaviour(rt.url)
       IN IF b.captions_raise
          THEN /\ rt' = raised(rt, "Exception")
               /\ log' = fetched(log, rt.url, <<"captions">>)
          ELSE /\ rt' = [rt EXCEPT !.pc = "video",
                                   !.captions_attempted = b.caption_codes]
               /\ log' = fetched(log, rt.url, <<"captions">>)
    /\ UNCHANGED <<rows, now, fs, tm, at, ops, dl, world, run, bd>>

\* A captions step that the first failing track ends with its exception.
dl_captions_stopping ==
    /\ rt.pc = "captions"
    /\ LET b == behaviour(rt.url)
       IN IF ~dl.download_captions
          THEN /\ rt' = [rt EXCEPT !.pc = "video"]
               /\ UNCHANGED log
          ELSE IF b.captions_raise
          THEN /\ rt' = raised(rt, "Exception")
               /\ log' = fetched(log, rt.url, <<"captions">>)
          ELSE IF b.caption_codes # {}
          THEN /\ \E first \in b.caption_codes :
                     rt' = [raised(rt, "Exception") EXCEPT
                               !.captions_attempted = {first}]
               /\ log' = fetched(log, rt.url, <<"captions">>)
          ELSE /\ rt' = [rt EXCEPT !.pc = "video"]
               /\ log' = fetched(log, rt.url, <<"captions">>)
    /\ UNCHANGED <<rows, now, fs, tm, at, ops, dl, world, run, bd>>

\* Lines 484-507.  The tracks are listed by the call yt.captions() of line
\* 486.  In the try of each track (lines 497-507) line 498 subscripts
\* yt.captions, the method that line 486 calls, which raises TypeError:
\* the except logs it and the loop goes on, so every track is attempted,
\* save_captions is never reached and no caption file is written.
dl_captions ==
    /\ rt.pc = "captions"
    /\ LET b == behaviour(rt.url)
       IN IF ~dl.download_captions
          THEN /\ rt' = [rt EXCEPT !.pc = "video"]
               /\ UNCHANGED log
          ELSE IF b.captions_raise
          THEN /\ rt' = raised(rt, "Exception")
               /\ log' = fetched(log, rt.url, <<"captions">>)
          ELSE /\ rt' = [rt EXCEPT !.pc = "video",
                                   !.captions_attempted = b.caption_codes]
               /\ log' = fetched(log, rt.url, <<"captions">>)
    /\ UNCHANGED <<rows, now, fs, tm, at, ops, dl, world, run, bd>>

\* A video step that selects and downloads whether or not the file is there.
dl_video_regardless ==
    /\ rt.pc = "video"
    /\ LET b == behaviour(rt.url)
           vdir == dl.video_destination_directory
           vname == video_full_filename(rt)
       IN IF ~dl.download_video
          THEN /\ rt' = [rt EXCEPT !.pc = "audio"]
               /\ UNCHANGED <<rows, now, fs, log>>
          ELSE IF b.streams_raise
          THEN /\ rt' = raised(rt, "Exception")
               /\ log' = fetched(log, rt.url, <<"streams">>)
               /\ UNCHANGED <<rows, now, fs>>
          ELSE IF b.video_stream = "none"
          THEN /\ fail_task("No suitable video stream found")
               /\ log' = fetched(log, rt.url, <<"streams">>)
               /\ UNCHANGED fs
          ELSE IF b.video_download # "ok"
          THEN /\ fail_task(exception_message("Exception"))
               /\ log' = fetched(log, rt.url, <<"streams", "download">>)
               /\ UNCHANGED fs
          ELSE /\ rt' = [rt EXCEPT !.pc = "audio"]
               /\ log' = fetched(log, rt.url, <<"streams", "download">>)
               /\ fs' = fs_move(fs_write(fs, TempFolder, {vname}, b.video_kind),
                                TempFolder, vname, vdir, vname)
               /\ UNCHANGED <<rows, now>>
    /\ UNCHANGED <<tm, at, ops, dl, world, run, bd>>

\* Lines 509-593.
dl_video ==
    /\ rt.pc = "video"
    /\ LET b == behaviour(rt.url)
           vdir == dl.video_destination_directory
           vname == video_full_filename(rt)
       IN IF ~(dl.download_video /\ ~path_exists(vdir, vname))
          THEN /\ rt' = [rt EXCEPT !.pc = "audio"]
               /\ UNCHANGED <<rows, now, fs, log>>
          ELSE IF b.streams_raise
          THEN /\ rt' = raised(rt, "Exception")
               /\ log' = fetched(log, rt.url, <<"streams">>)
               /\ UNCHANGED <<rows, now, fs>>
          ELSE IF b.video_stream = "none"
          THEN /\ fail_task("No suitable video stream found")
               /\ log' = fetched(log, rt.url, <<"streams">>)
               /\ UNCHANGED fs
          ELSE IF b.video_download # "ok"
          THEN /\ fail_task(exception_message("Exception"))
               /\ log' = fetched(log, rt.url, <<"streams", "download">>)
               /\ UNCHANGED fs
          ELSE /\ rt' = [rt EXCEPT !.pc = "audio"]
               /\ log' = fetched(log, rt.url, <<"streams", "download">>)
               /\ fs' = fs_move(fs_write(fs, TempFolder, {vname}, b.video_kind),
                                TempFolder, vname, vdir, vname)
               /\ UNCHANGED <<rows, now>>
    /\ UNCHANGED <<tm, at, ops, dl, world, run, bd>>

\* Lines 629-660 taken in the reverse order: any audio-only stream first.
select_audio_stream_any_first(all_streams) ==
    IF all_streams.any # "" THEN all_streams.any
    ELSE IF all_streams.subtype # "" THEN all_streams.subtype
    ELSE all_streams.specific

\* Lines 629-660: the stream of the first query that finds one, "" when
\* none does.
select_audio_stream(all_streams) ==
    IF all_streams.specific # "" THEN all_streams.specific
    ELSE IF all_streams.subtype # "" THEN all_streams.subtype
    ELSE all_streams.any

\* An extraction that never yields an audio track.
extracted_audio_never(f, vdir, vname, b) == FALSE

\* Lines 613-626: the audio track of the video file at the destination:
\* there is none when the file is missing, has no audio track, or cannot
\* be opened.
extracted_audio(f, vdir, vname, b) ==
    /\ vdir \in DOMAIN f
    /\ vname \in DOMAIN f[vdir]
    /\ ~b.extract_raises
    /\ f[vdir][vname] = "av"

\* Lines 595-753.  The audio is taken from the video file when that file has
\* an audio track, and from an audio stream otherwise.
dl_audio ==
    /\ rt.pc = "audio"
    /\ LET b == behaviour(rt.url)
           vdir == dl.video_destination_directory
           adir == dl.audio_destination_directory
           vname == video_full_filename(rt)
           aname == audio_full_filename_with_ext(rt)
           oname == original_audio_filename(rt)
           extracted == extracted_audio(fs, vdir, vname, b)
           audio_stream == select_audio_stream(b.audio_streams)
           frame == IF extracted
                    THEN [rt EXCEPT !.audio_clip = "extracted",
                                    !.audio_stream = ""]
                    ELSE [rt EXCEPT !.audio_clip = "downloaded",
                                    !.audio_stream = audio_stream]
           fs_downloaded ==
               IF extracted THEN fs
               ELSE fs_write(fs, TempFolder, {oname}, "audio")
           fs_written == fs_write(fs_downloaded, adir, {aname}, "audio")
           temp_exists == oname \in files_in(fs_written, TempFolder)
           fs_done ==
               IF /\ dl.keep_original_audio
                  /\ dl.audio_mime_type # dl.audio_extension
                  /\ temp_exists
               THEN fs_move(fs_written, TempFolder, oname, adir, oname)
               ELSE IF temp_exists THEN fs_remove(fs_written, TempFolder, oname)
               ELSE fs_written
           write_phase ==
               IF b.write_audio = "ok"
               THEN /\ rt' = [frame EXCEPT !.pc = "merge"]
                    /\ fs' = fs_done
                    /\ UNCHANGED <<rows, now>>
               ELSE /\ fail_task_from(frame, exception_message("Exception"))
                    /\ fs' = fs_downloaded
       IN IF ~(dl.download_audio /\ ~path_exists(adir, aname))
          THEN /\ rt' = [rt EXCEPT !.pc = "merge", !.audio_clip = "",
                                   !.audio_stream = ""]
               /\ UNCHANGED <<rows, now, fs, log>>
          ELSE IF extracted
          THEN /\ write_phase
               /\ UNCHANGED log
          ELSE IF b.streams_raise
          THEN /\ rt' = raised(rt, "Exception")
               /\ log' = fetched(log, rt.url, <<"streams">>)
               /\ UNCHANGED <<rows, now, fs>>
          ELSE IF audio_stream = ""
          THEN /\ fail_task("No suitable audio stream found")
               /\ log' = fetched(log, rt.url, <<"streams">>)
               /\ UNCHANGED fs
          ELSE IF b.audio_download # "ok"
          THEN /\ fail_task_from(frame, exception_message("Exception"))
               /\ log' = fetched(log, rt.url, <<"streams", "download">>)
               /\ UNCHANGED fs
          ELSE /\ write_phase
               /\ log' = fetched(log, rt.url, <<"streams", "download">>)
    /\ UNCHANGED <<tm, at, ops, dl, world, run, bd>>

\* A check that never finds a merged file.
already_merged_never(f, vdir, final_name) == FALSE

\* Lines 774-790: the file at the merge destination exists and the clip
\* opened from it has an audio track.
already_merged(f, vdir, final_name) ==
    /\ vdir \in DOMAIN f
    /\ final_name \in DOMAIN f[vdir]
    /\ f[vdir][final_name] = "av"

\* A cleanup that closes the video clip only.
merge_cleanup_video_only(opened) == opened \cap {"video_clip_to_merge"}

\* Lines 859-866: the finally clause closes each clip that is not None.
merge_cleanup(opened) ==
    opened \cap {"video_clip_to_merge", "audio_clip_to_merge"}

\* Lines 836-843: the original is removed unless it is to be kept.
fs_original_removed(f, vdir, vname) ==
    IF ~dl.keep_original_video /\ vdir \in DOMAIN f /\ vname \in DOMAIN f[vdir]
    THEN fs_remove(f, vdir, vname)
    ELSE f

\* Lines 755-878.  A file of kind "broken" is one that VideoFileClip cannot
\* open.  The frame keeps the clips the step has opened and those it has
\* closed.
dl_merge ==
    /\ rt.pc = "merge"
    /\ LET b == behaviour(rt.url)
           vdir == dl.video_destination_directory
           adir == dl.audio_destination_directory
           vname == video_full_filename(rt)
           aname == audio_full_filename_with_ext(rt)
           mname == merged_video_temp_filename(rt)
           final_name == IF dl.keep_original_video THEN mname ELSE vname
           checked == path_exists(vdir, final_name)
                         /\ fs[vdir][final_name] # "broken"
           existing == IF checked THEN {"existing_video_clip"} ELSE {}
           stage == IF fs[vdir][vname] = "broken" THEN "load"
                    ELSE IF b.merge = "remove" /\ dl.keep_original_video
                    THEN "ok"
                    ELSE b.merge
           loaded == IF stage = "load" THEN {}
                     ELSE IF stage = "load_audio" THEN {"video_clip_to_merge"}
                     ELSE {"video_clip_to_merge", "audio_clip_to_merge"}
           frame == [rt EXCEPT !.opened = existing \cup loaded,
                               !.closed = existing \cup merge_cleanup(loaded)]
           fs_muxed == fs_write(fs, TempFolder, {mname}, "av")
           fs_removed == fs_original_removed(fs_muxed, vdir, vname)
           fs_moved == fs_move(fs_removed, TempFolder, mname, vdir, final_name)
       IN IF ~(/\ dl.reconvert_media
               /\ path_exists(vdir, vname)
               /\ path_exists(adir, aname))
          THEN /\ rt' = [rt EXCEPT !.pc = "final", !.opened = {}, !.closed = {}]
               /\ UNCHANGED <<rows, now, fs>>
          ELSE IF already_merged(fs, vdir, final_name)
          THEN /\ update_task(rt.youtube_id, [status |-> "completed"])
               /\ rt' = returned([rt EXCEPT !.opened = existing,
                                            !.closed = existing], "True")
               /\ UNCHANGED fs
          ELSE IF stage = "ok"
          THEN /\ rt' = [frame EXCEPT !.pc = "final"]
               /\ fs' = fs_moved
               /\ UNCHANGED <<rows, now>>
          ELSE /\ fail_task_from(frame, exception_message("Exception"))
               /\ fs' = IF stage = "move" THEN fs_removed
                        ELSE IF stage = "remove" THEN fs_muxed
                        ELSE fs
    /\ UNCHANGED <<tm, at, ops, dl, world, run, bd, log>>

\* A finalization that also writes the title's name as the final video name.
finalize_updates_renaming(frame) ==
    [status |-> "completed",
     final_video_filename |->
         safe_filename(frame.video_title, dl.max_file_length)
             \o "." \o dl.video_extension]

\* Lines 880-904: the updates of the finalization.
finalize_updates(frame) ==
    LET vdir == dl.video_destination_directory
        adir == dl.audio_destination_directory
        vname == video_full_filename(frame)
        aname == audio_full_filename_with_ext(frame)
    IN [status |-> "completed",
        video_filepath |-> IF dl.download_video THEN path_join(vdir, vname) ELSE Null,
        audio_filepath |-> IF dl.download_audio THEN path_join(adir, aname) ELSE Null,
        video_hash |-> IF dl.download_video
                       THEN calculate_file_hash(fs, vdir, vname) ELSE Null,
        audio_hash |-> IF dl.download_audio
                       THEN calculate_file_hash(fs, adir, aname) ELSE Null]

\* Lines 880-906.
dl_finalize ==
    /\ rt.pc = "final"
    /\ update_task(rt.youtube_id, finalize_updates(rt))
    /\ rt' = returned(rt, "True")
    /\ UNCHANGED <<fs, tm, at, ops, dl, world, run, bd, log>>

\* Lines 314-316: the message of the exception raised after the last
\* attempt; func is _download_youtube_video of the module run.
all_retries_failed(err) ==
    "[run._download_youtube_video] All retries failed: " \o err

\* A wrapper that makes one attempt more than retries.
wrapper_except_once_more ==
    /\ rt.pc = "raised"
    /\ rt' = IF rt.attempt < Retries + 1
             THEN [rt EXCEPT !.pc = "enter", !.attempt = @ + 1,
                             !.youtube_id = "", !.task = None,
                             !.video_title = "", !.exc = ""]
             ELSE [rt EXCEPT !.pc = "ended", !.result = "raise",
                             !.exc = "Exception",
                             !.err = all_retries_failed(rt.err)]
    /\ UNCHANGED <<rows, now, fs, tm, at, ops, dl, world, run, bd, log>>

\* Lines 306-316: the wrapper catches the exception of an attempt; it makes
\* the next attempt, or after the last one raises Exception to its caller.
wrapper_except ==
    /\ rt.pc = "raised"
    /\ rt' = IF rt.attempt < Retries
             THEN [rt EXCEPT !.pc = "enter", !.attempt = @ + 1,
                             !.youtube_id = "", !.task = None,
                             !.video_title = "", !.exc = ""]
             ELSE [rt EXCEPT !.pc = "ended", !.result = "raise",
                             !.exc = "Exception",
                             !.err = all_retries_failed(rt.err)]
    /\ UNCHANGED <<rows, now, fs, tm, at, ops, dl, world, run, bd, log>>

(***************************************************************************)
(* YouTubeDownloader._preprocess_videos_from_list, the batch driver.  An   *)
(* item of its list is a string, a YouTube object or something else:       *)
(* [kind |-> "str" | "yt" | "other", url |-> the string or the watch_url]. *)
(***************************************************************************)
\* Lines 915-921: the driver is called; an empty list ends it at once.
batch_call(caller, videos, fs_now, log_length) ==
    [BdIdle EXCEPT !.pc = IF Len(videos) = 0 THEN "ended" ELSE "item",
                   !.caller = caller, !.videos = videos, !.i = 1,
                   !.rows0 = rows, !.fs0 = fs_now, !.log0 = log_length]

\* "continue", or the end of the loop body: the loop goes to its next item.
next_item(frame) ==
    [frame EXCEPT !.pc = IF frame.i + 1 > Len(frame.videos) THEN "ended" ELSE "item",
                  !.i = @ + 1]

\* Lines 972-982.
should_skip(video_exists, audio_exists) ==
    IF ~dl.reconvert_media
    THEN IF dl.download_video /\ dl.download_audio
         THEN video_exists /\ audio_exists
         ELSE IF dl.download_video THEN video_exists
         ELSE IF dl.download_audio THEN audio_exists
         ELSE FALSE
    ELSE FALSE

\* Lines 921-956 and 994-1003: the item, its id, its task, the title fetched
\* for the pre-check and the task created when there is none.
bd_item ==
    /\ bd.pc = "item"
    /\ LET video_item == bd.videos[bd.i]
           video_url == video_item.url
           youtube_id == extract_youtube_id(video_url)
           task == get_task(youtube_id)
           frame == [bd EXCEPT !.video_url = video_url, !.youtube_id = youtube_id,
                               !.task = task, !.created = FALSE,
                               !.video_title = "", !.handled = ""]
       IN IF video_item.kind \notin {"str", "yt"}
          THEN /\ bd' = next_item([bd EXCEPT !.created = FALSE])
               /\ UNCHANGED <<rows, now, tm, at, log>>
          ELSE IF youtube_id = ""
          THEN /\ bd' = next_item(frame)
               /\ UNCHANGED <<rows, now, tm, at, log>>
          ELSE /\ log' = fetched(log, video_url, <<"construct", "title">>)
               /\ IF title_outcome(video_url) # "ok"
                  THEN /\ IF task # None
                          THEN update_task(youtube_id,
                                  [status |-> "failed",
                                   error_message |-> "Pre-check failed: " \o
                                       exception_message(title_outcome(video_url))])
                          ELSE UNCHANGED <<rows, now>>
                       /\ bd' = [frame EXCEPT !.pc = "call"]
                       /\ UNCHANGED <<tm, at>>
                  ELSE \E video_title \in behaviour(video_url).titles :
                          IF task = None
                          THEN /\ add_task("batch", video_url, video_title,
                                           dl.max_file_length)
                               /\ bd' = IF at'.ret = None
                                        THEN next_item(frame)
                                        ELSE [frame EXCEPT !.pc = "check",
                                                           !.task = at'.ret,
                                                           !.created = TRUE,
                                                           !.video_title = video_title]
                          ELSE /\ bd' = [frame EXCEPT !.pc = "check",
                                                      !.video_title = video_title]
                               /\ UNCHANGED <<rows, now, tm, at>>
    /\ UNCHANGED <<fs, ops, dl, world, run, rt>>

\* Lines 958-992: the files looked for on the disk, the task marked
\* completed and passed over, or marked pending.
bd_check ==
    /\ bd.pc = "check"
    /\ LET video_exists == path_exists(dl.video_destination_directory,
                                       bd.task[1].final_video_filename)
           audio_exists == path_exists(dl.audio_destination_directory,
                                       bd.task[1].final_audio_filename)
       IN IF should_skip(video_exists, audio_exists)
          THEN /\ update_task(bd.youtube_id, [status |-> "completed"])
               /\ bd' = next_item(bd)
          ELSE /\ update_task(bd.youtube_id, [status |-> "pending"])
               /\ bd' = [bd EXCEPT !.pc = "call"]
    /\ UNCHANGED <<fs, tm, at, ops, dl, world, run, rt, log>>

\* Lines 1005-1009: the routine is invoked for the item.
bd_call ==
    /\ bd.pc = "call"
    /\ rt' = routine_call("batch", bd.video_url)
    /\ bd' = [bd EXCEPT !.pc = "wait"]
    /\ UNCHANGED <<rows, now, fs, tm, at, ops, dl, world, run, log>>

\* A driver that lets what the routine raised end the whole batch.
bd_after_aborting ==
    /\ bd.pc = "wait"
    /\ rt.pc = "ended"
    /\ bd' = IF rt.result = "raise"
             THEN [bd EXCEPT !.pc = "ended", !.handled = "raised"]
             ELSE next_item([bd EXCEPT !.handled = "none"])
    /\ UNCHANGED <<rows, now, fs, tm, at, ops, dl, world, run, rt, log>>

\* Lines 1009-1018: the routine has ended; what it raised is caught.
bd_after ==
    /\ bd.pc = "wait"
    /\ rt.pc = "ended"
    /\ bd' = next_item([bd EXCEPT !.handled =
                          IF rt.result # "raise" THEN "none"
                          ELSE IF rt.exc = "BotDetection" THEN "bot"
                          ELSE "generic"])
    /\ UNCHANGED <<rows, now, fs, tm, at, ops, dl, world, run, rt, log>>

(***************************************************************************)
(* YouTubeDownloader.run.  Channel and search downloads are off, as        *)
(* CHANNEL_DOWNLOAD and SEARCH_DOWNLOAD have it.                           *)
(***************************************************************************)
\* No call is under way: the orchestrator can be called.
quiet ==
    /\ run.pc \in {"idle", "ended"}
    /\ bd.pc \in {"idle", "ended"}
    /\ rt.pc \in {"idle", "ended"}

string_items(urls) == [i \in 1 .. Len(urls) |-> [kind |-> "str", url |-> urls[i]]]

\* playlist.videos: YouTube objects.
youtube_items(ids) == [i \in 1 .. Len(ids) |-> [kind |-> "yt", url |-> watch_url(ids[i])]]

\* The routine is called from outside, as the tests do.
call_download(url) ==
    /\ quiet
    /\ ops < MaxCalls
    /\ ops' = ops + 1
    /\ log' = <<>>
    /\ rt' = [routine_call("top", url) EXCEPT !.log0 = 0]
    /\ bd' = BdIdle
    /\ run' = RunIdle
    /\ UNCHANGED <<rows, now, fs, tm, at, dl, world>>

\* The batch driver is called from outside.
call_batch(videos) ==
    /\ quiet
    /\ ops < MaxCalls
    /\ ops' = ops + 1
    /\ log' = <<>>
    /\ bd' = batch_call("top", videos, fs, 0)
    /\ rt' = RtIdle
    /\ run' = RunIdle
    /\ UNCHANGED <<rows, now, fs, tm, at, dl, world>>

\* The task manager's add_task is called from outside with a length of the
\* caller's choice, as the tests do (test_run_script.py:223-225).
call_add_task(video_url, video_title, max_file_length) ==
    /\ quiet
    /\ ops < MaxCalls
    /\ ops' = ops + 1
    /\ log' = <<>>
    /\ add_task("top", video_url, video_title, max_file_length)
    /\ rt' = RtIdle
    /\ bd' = BdIdle
    /\ run' = RunIdle
    /\ UNCHANGED <<fs, dl, world>>

\* Lines 1392-1405: run() is called; the videos come first.
call_run(video_urls, playlist_urls) ==
    /\ quiet
    /\ ops < MaxCalls
    /\ ops' = ops + 1
    /\ log' = <<>>
    /\ run' = [RunIdle EXCEPT !.pc = "videos", !.playlists = playlist_urls,
                              !.entry_video_dst = dl.video_destination_directory,
                              !.entry_audio_dst = dl.audio_destination_directory]
    /\ bd' = IF Len(video_urls) > 0
             THEN batch_call("run", string_items(video_urls), fs, 0)
             ELSE BdIdle
    /\ rt' = RtIdle
    /\ UNCHANGED <<rows, now, fs, tm, at, dl, world>>

\* Lines 1407-1411: the playlists, when enabled and given.
run_begin_playlists ==
    /\ run.pc = "videos"
    /\ bd.pc \in {"idle", "ended"}
    /\ run' = IF dl.enable_playlist_download /\ Len(run.playlists) > 0
              THEN [run EXCEPT !.pc = "playlists", !.k = 1,
                       !.original_global_video_dst = dl.video_destination_directory,
                       !.original_global_audio_dst = dl.audio_destination_directory]
              ELSE [run EXCEPT !.pc = "ended"]
    /\ UNCHANGED <<rows, now, fs, tm, at, ops, dl, world, bd, rt, log>>

\* A run that leaves the directories as the last playlist set them.
run_playlist_without_restore ==
    /\ run.pc = "playlists"
    /\ bd.pc \in {"idle", "ended"}
    /\ IF run.k > Len(run.playlists)
       THEN /\ run' = [run EXCEPT !.pc = "ended"]
            /\ UNCHANGED <<dl, fs, bd, log>>
       ELSE LET playlist_url == run.playlists[run.k]
                playlist == world.playlists[playlist_url]
                safe_title == safe_filename(playlist.title, dl.max_file_length)
                video_dir == dl.base_path \o safe_title
                audio_dir == dl.base_path \o safe_title \o "-Audio"
                fs_made == fs_makedirs(fs_makedirs(fs, video_dir), audio_dir)
            IN /\ run' = [run EXCEPT !.k = @ + 1]
               /\ log' = fetched(log, playlist_url, <<"playlist">>)
               /\ IF playlist.raises = "title"
                  THEN UNCHANGED <<dl, fs, bd>>
                  ELSE /\ dl' = [dl EXCEPT !.video_destination_directory = video_dir,
                                           !.audio_destination_directory = audio_dir]
                       /\ fs' = fs_made
                       /\ bd' = IF playlist.raises = "videos" THEN bd
                                ELSE batch_call("run", youtube_items(playlist.videos),
                                                fs_made, Len(log) + 1)
    /\ UNCHANGED <<rows, now, tm, at, ops, world, rt>>

\* Lines 1413-1453: one playlist, or after the last one the directories
\* are set back.
run_playlist ==
    /\ run.pc = "playlists"
    /\ bd.pc \in {"idle", "ended"}
    /\ IF run.k > Len(run.playlists)
       THEN /\ dl' = [dl EXCEPT
                         !.video_destination_directory = run.original_global_video_dst,
                         !.audio_destination_directory = run.original_global_audio_dst]
            /\ run' = [run EXCEPT !.pc = "ended"]
            /\ UNCHANGED <<fs, bd, log>>
       ELSE LET playlist_url == run.playlists[run.k]
                playlist == world.playlists[playlist_url]
                safe_title == safe_filename(playlist.title, dl.max_file_length)
                video_dir == dl.base_path \o safe_title
                audio_dir == dl.base_path \o safe_title \o "-Audio"
                fs_made == fs_makedirs(fs_makedirs(fs, video_dir), audio_dir)
            IN /\ run' = [run EXCEPT !.k = @ + 1]
               /\ log' = fetched(log, playlist_url, <<"playlist">>)
               /\ IF playlist.raises = "title"
                  THEN UNCHANGED <<dl, fs, bd>>
                  ELSE /\ dl' = [dl EXCEPT !.video_destination_directory = video_dir,
                                           !.audio_destination_directory = audio_dir]
                       /\ fs' = fs_made
                       /\ bd' = IF playlist.raises = "videos" THEN bd
                                ELSE batch_call("run", youtube_items(playlist.videos),
                                                fs_made, Len(log) + 1)
    /\ UNCHANGED <<rows, now, tm, at, ops, world, rt>>

(***************************************************************************)
(* The orchestrator and its environment.                                   *)
(***************************************************************************)
UrlA == "https://www.youtube.com/watch?v=" \o TokenA
UrlB == "https://www.youtube.com/embed/" \o TokenB
UrlNoId == "https://www.youtube.com/playlist"
PlaylistUrl == "https://www.youtube.com/playlist?list=PL"

PlaylistGone == "https://www.youtube.com/playlist?list=GONE"
PlaylistBroken == "https://www.youtube.com/playlist?list=Q"

\* A playlist, one whose title cannot be had and one whose videos cannot.
Playlists ==
    PlaylistUrl :> [title |-> "PL", videos |-> <<TokenA, TokenB>>, raises |-> "no"]
    @@ PlaylistGone :> [title |-> "", videos |-> <<>>, raises |-> "title"]
    @@ PlaylistBroken :> [title |-> "Q:", videos |-> <<>>, raises |-> "videos"]

world_of(video_a) ==
    [videos |-> (TokenA :> video_a @@ TokenB :> PlainVideo), playlists |-> Playlists]

empty_directories ==
    (TempFolder :> <<>> @@ DefaultVideoDir :> <<>> @@ DefaultAudioDir :> <<>>)

\* The downloader as constructed or with attributes set as the tests set
\* them, the collaborator's world, and the files found on the disk.
Setups ==
    {[dl |-> DefaultDownloader, world |-> world_of(PlainVideo),
      fs |-> empty_directories],
     [dl |-> DefaultDownloader,
      world |-> world_of([PlainVideo EXCEPT !.avail = "VideoUnavailable"]),
      fs |-> empty_directories],
     [dl |-> DefaultDownloader,
      world |-> world_of([PlainVideo EXCEPT !.avail = "flaky"]),
      fs |-> empty_directories],
     [dl |-> DefaultDownloader,
      world |-> world_of([PlainVideo EXCEPT !.titles = {"abc", "ABC"}]),
      fs |-> empty_directories],
     [dl |-> DefaultDownloader,
      world |-> world_of([PlainVideo EXCEPT !.avail = "BotDetection"]),
      fs |-> empty_directories],
     [dl |-> DefaultDownloader,
      world |-> world_of([PlainVideo EXCEPT !.length_raises = TRUE]),
      fs |-> empty_directories],
     [dl |-> DefaultDownloader,
      world |-> world_of([PlainVideo EXCEPT !.video_stream = "fallback",
                                            !.video_kind = "av"]),
      fs |-> empty_directories],
     [dl |-> DefaultDownloader,
      world |-> world_of([PlainVideo EXCEPT !.video_stream = "none"]),
      fs |-> empty_directories],
     [dl |-> DefaultDownloader,
      world |-> world_of([PlainVideo EXCEPT
                             !.audio_streams = [specific |-> "", subtype |-> "",
                                                any |-> ""]]),
      fs |-> empty_directories],
     [dl |-> DefaultDownloader,
      world |-> world_of([PlainVideo EXCEPT !.audio_download = "fail"]),
      fs |-> empty_directories],
     [dl |-> DefaultDownloader,
      world |-> world_of([PlainVideo EXCEPT !.merge = "move"]),
      fs |-> empty_directories],

     [dl |-> [DefaultDownloader EXCEPT !.keep_original_video = TRUE,
                                       !.keep_original_audio = TRUE],
      world |-> world_of(PlainVideo), fs |-> empty_directories],
     [dl |-> [DefaultDownloader EXCEPT !.download_video = FALSE,
                                       !.download_captions = FALSE,
                                       !.reconvert_media = FALSE],
      world |-> world_of(PlainVideo), fs |-> empty_directories],
     [dl |-> [DefaultDownloader EXCEPT !.dry_run = TRUE],
      world |-> world_of(PlainVideo), fs |-> empty_directories],
     [dl |-> [DefaultDownloader EXCEPT !.reconvert_media = FALSE],
      world |-> world_of(PlainVideo), fs |-> empty_directories],
     [dl |-> DefaultDownloader, world |-> world_of(PlainVideo),
      fs |-> fs_write(empty_directories, BasePath \o "PL", {"abc.mp4"}, "av")]}

CallUrls == {UrlA, UrlNoId}
CallLists ==
    {string_items(<<UrlA, UrlB>>),
     <<[kind |-> "other", url |-> ""]>> \o string_items(<<UrlNoId, UrlA>>)}
CallPlaylists == {<<PlaylistGone>>, <<PlaylistBroken, PlaylistUrl>>}
CallTitles == {"ABC"}

\* The lengths add_task is called with from outside: the one of the tests,
\* and one shorter than the title.
CallMaxLengths == {60, 2}

Init ==
    /\ \E s \in Setups : dl = s.dl /\ world = s.world /\ fs = s.fs
    /\ tm = task_manager_of(DefaultDownloader)
    /\ rows = <<>>
    /\ now = MaxClock
    /\ at = AtIdle
    /\ ops = 0
    /\ run = RunIdle
    /\ bd = BdIdle
    /\ rt = RtIdle
    /\ log = <<>>

\* The steps the orchestrator takes once it has been called.
Step ==
    \/ run_begin_playlists
    \/ run_playlist
    \/ bd_item
    \/ bd_check
    \/ bd_call
    \/ bd_after
    \/ dl_enter
    \/ dl_init
    \/ dl_title
    \/ dl_mark
    \/ dl_dry_run
    \/ dl_captions
    \/ dl_video
    \/ dl_audio
    \/ dl_merge
    \/ dl_finalize
    \/ wrapper_except

Next ==
    \/ \E url \in CallUrls : call_download(url)
    \/ \E videos \in CallLists : call_batch(videos)
    \/ \E title \in CallTitles, max_file_length \in CallMaxLengths :
          call_add_task(UrlA, title, max_file_length)
    \/ \E playlist_urls \in CallPlaylists : call_run(<<>>, playlist_urls)
    \/ Step

\* The code runs on: a call under way takes its next step.
Spec == Init /\ [][Next]_vars /\ WF_vars(Step)

(***************************************************************************)
(* Properties of the orchestrator.                                         *)
(***************************************************************************)
\* A status change that goes back: out of completed or failed into pending
\* or in_progress, or out of in_progress into pending.
status_moves_back(old, new) ==
    \/ old \in {"completed", "failed"} /\ new \in {"pending", "in_progress"}
    \/ old = "in_progress" /\ new = "pending"

\* C2: no step of the batch driver or of the per-video routine moves the
\* status of a task back (completed or failed to pending or in_progress,
\* in_progress to pending).
C2_StatusMovesForward ==
    [][\A i \in 1 .. Len(rows) :
          ~status_moves_back(rows[i].status, rows'[i].status)]_vars

\* The routine's invocation is the one under way or the one just ended.
routine_in_view == rt.pc # "idle" /\ (rt.caller = "batch" => bd.pc = "wait")

\* C3: when the task of the URL's id is completed as the routine is invoked,
\* the routine returns True on its first attempt, and from its invocation to
\* its return no operation of the fetch collaborator is invoked, the
\* filesystem is not written and the table is not changed.
C3_CompletedReturnsAtOnce ==
    (routine_in_view /\ rt.entry_status = "completed") =>
        /\ rt.pc \in {"enter", "ended"}
        /\ rt.pc = "ended" => rt.result = "True"
        /\ rt.attempt = 1
        /\ Len(log) = rt.log0
        /\ fs = rt.fs0
        /\ rows = rt.rows0

\* C3's case: the routine has returned from an invocation for a task that an
\* earlier invocation had completed with its files on the disk.
C3_Witness ==
    /\ rt.pc = "ended"
    /\ rt.entry_status = "completed"
    /\ rt.result = "True"
    /\ \E i \in 1 .. Len(rows) :
          /\ rows[i].youtube_id = rt.youtube_id
          /\ rows[i].video_filepath # Null
          /\ path_exists(dl.video_destination_directory, rows[i].final_video_filename)

\* The downloader has every step enabled.
all_steps_enabled ==
    /\ ~dl.dry_run
    /\ dl.download_captions /\ dl.download_video /\ dl.download_audio
    /\ dl.reconvert_media

\* C4: in a pass of the batch driver over a reference whose task an earlier
\* fully successful run completed (every step enabled, the output files on
\* the disk), no operation of the fetch collaborator is invoked for that
\* reference and the status of the task is completed at every point.
C4_RerunMakesNoFetch ==
    \A i \in 1 .. Len(bd.rows0) :
        LET r == bd.rows0[i]
        IN ( /\ bd.pc # "idle"
             /\ all_steps_enabled
             /\ r.status = "completed"
             /\ r.video_filepath # Null /\ r.audio_filepath # Null
             /\ r.final_video_filename
                    \in files_in(bd.fs0, dl.video_destination_directory)
             /\ r.final_audio_filename
                    \in files_in(bd.fs0, dl.audio_destination_directory)
             /\ \E j \in 1 .. Len(bd.videos) :
                    extract_youtube_id(bd.videos[j].url) = r.youtube_id )
           => /\ rows[i].status = "completed"
              /\ \A n \in (bd.log0 + 1) .. Len(log) :
                    extract_youtube_id(log[n].url) # r.youtube_id

\* C5: no step changes the final_video_filename or the final_audio_filename
\* of a row of the table (nor the row's place or id).
C5_FinalNamesFixed ==
    [][\A i \in 1 .. Len(rows) :
          /\ i <= Len(rows')
          /\ rows'[i].youtube_id = rows[i].youtube_id
          /\ rows'[i].final_video_filename = rows[i].final_video_filename
          /\ rows'[i].final_audio_filename = rows[i].final_audio_filename]_vars

\* C5's case: a task the routine has completed with its final names as
\* add_task made them, and add_task then called for its id from outside with
\* a title that gives another suggested base: the row is returned as it is.
C5_Witness ==
    \E i \in 1 .. Len(rows) :
        /\ rows[i].status = "completed"
        /\ rows[i].video_filepath # Null
        /\ rows[i].final_video_filename = rows[i].suggested_filename_base \o ".mp4"
        /\ at.pc = "done"
        /\ at.caller = "top"
        /\ at.max_file_length = 60
        /\ at.youtube_id = rows[i].youtube_id
        /\ at.ret = Some(rows[i])
        /\ safe_filename(at.video_title, at.max_file_length)
               # rows[i].suggested_filename_base

\* C7: when add_task has made a task for the batch driver, no file of the
\* task's final video name is in the directory the downloader writes videos
\* to, and no file of its final audio name in the one it writes audio to.
C7_NewNamesFreeAtDestination ==
    (bd.pc = "check" /\ bd.created) =>
        /\ ~path_exists(dl.video_destination_directory,
                        bd.task[1].final_video_filename)
        /\ ~path_exists(dl.audio_destination_directory,
                        bd.task[1].final_audio_filename)

\* The item the batch driver is at has no id to extract.
item_without_id ==
    /\ bd.pc \in {"item", "check", "call", "wait"}
    /\ bd.videos[bd.i].kind \in {"str", "yt"}
    /\ extract_youtube_id(bd.videos[bd.i].url) = ""

\* C12: for a reference without an extractable id the routine returns False
\* on its first attempt, with no row created and no fetch made, and the
\* batch driver passes over the item without invoking the routine, creating
\* a row or making a fetch.
C12_NoIdIsPassedOver ==
    /\ []((routine_in_view /\ extract_youtube_id(rt.url) = "") =>
             /\ rt.pc \in {"enter", "ended"}
             /\ rt.pc = "ended" => rt.result = "False"
             /\ rt.attempt = 1
             /\ rows = rt.rows0
             /\ Len(log) = rt.log0)
    /\ [](item_without_id => bd.pc = "item")
    /\ [][item_without_id =>
             /\ rows' = rows
             /\ log' = log
             /\ rt' = rt
             /\ bd'.pc \in {"item", "ended"}
             /\ bd'.i = bd.i + 1]_vars
    /\ [](\A i \in 1 .. Len(rows) : rows[i].youtube_id # "")

\* The routine, called for a reference without an id, has returned False.
C12_Witness ==
    /\ rt.pc = "ended"
    /\ rt.caller = "top"
    /\ rt.url = UrlNoId
    /\ extract_youtube_id(rt.url) = ""
    /\ rt.result = "False"

\* The references presented in the calls that have ended.
presented_and_ended ==
    (IF rt.pc = "ended" /\ rt.caller = "top" THEN {rt.url} ELSE {}) \cup
    (IF bd.pc = "ended"
     THEN {bd.videos[i].url : i \in {j \in 1 .. Len(bd.videos) :
                                         bd.videos[j].kind \in {"str", "yt"}}}
     ELSE {})

\* The references in the hands of the orchestrator or, with a call of
\* add_task from outside, of the task store.
references_at_hand ==
    (IF rt.pc # "idle" THEN {rt.url} ELSE {}) \cup
    (IF bd.pc # "idle" THEN {bd.video_url} ELSE {}) \cup
    (IF at.caller = "top" THEN {at.video_url} ELSE {})

\* C13: a task row exists for an id if and only if the id was extracted from
\* a reference presented to the orchestrator: once a call has ended, every
\* reference of it that has an id has a row, and a row is only ever created
\* for the id of a reference at hand.
C13_RowIffPresented ==
    /\ [](\A url \in presented_and_ended :
             extract_youtube_id(url) # "" => task_exists(extract_youtube_id(url)))
    /\ [][\A i \in (Len(rows) + 1) .. Len(rows') :
             \E url \in references_at_hand' :
                rows'[i].youtube_id = extract_youtube_id(url)]_vars

\* sub in s, as Python's "in" on strings has it.
py_in(sub, s) ==
    \E i \in 1 .. (Len(s) - Len(sub) + 1) : SubSeq(s, i, i + Len(sub) - 1) = sub

\* The routine has ended for a reference with an id whose metadata cannot
\* be resolved: check_availability raises at every attempt.
metadata_resolution_failed ==
    /\ rt.pc = "ended"
    /\ extract_youtube_id(rt.url) # ""
    /\ rt.entry_status # "completed"
    /\ behaviour(rt.url).avail \notin {"ok", "flaky"}

\* C14: when metadata resolution fails for a reference with an id, then once
\* the routine has ended the row of that id has status failed and an
\* error_message holding the reason, and the caller gets the error.
C14_ResolutionFailureIsRecorded ==
    metadata_resolution_failed =>
        /\ rt.result = "raise"
        /\ \E i \in 1 .. Len(rows) :
              /\ rows[i].youtube_id = extract_youtube_id(rt.url)
              /\ rows[i].status = "failed"
              /\ py_in(exception_message(behaviour(rt.url).avail),
                       rows[i].error_message)

\* The invocation of the routine in view has marked its task in_progress:
\* the length is fetched right after the mark (lines 465-468).
marked_in_progress ==
    \E k \in (rt.log0 + 1) .. Len(log) :
        log[k].url = rt.url /\ log[k].op = "length"

\* C15: when an invocation of the routine has ended without success after
\* it marked the task in_progress, the task is failed and has an error
\* message: it is not left in_progress.
C15_NoTaskLeftInProgress ==
    (/\ routine_in_view
     /\ rt.pc = "ended"
     /\ rt.result \in {"False", "raise"}
     /\ marked_in_progress) =>
        \E i \in 1 .. Len(rows) :
            /\ rows[i].youtube_id = rt.youtube_id
            /\ rows[i].status = "failed"
            /\ rows[i].error_message # Null

\* The batch driver is at work on its list.
batch_at_work == bd.pc \in {"item", "check", "call", "wait"}

\* The step leaves the item the driver is at for the next one.
leaves_item == batch_at_work /\ bd' # bd /\ bd'.pc \in {"item", "ended"}

\* C16: the batch driver takes its items one at a time in the order of the
\* list and reaches the end of the list whatever the routine returns or
\* raises; it leaves an item only when the item is no reference with an id,
\* when no task could be made for it, when its files are found on the disk,
\* or when the routine was invoked for it and has ended.
C16_BatchReachesItsEnd ==
    /\ [][batch_at_work =>
             /\ bd'.videos = bd.videos
             /\ bd'.i \in {bd.i, bd.i + 1}
             /\ bd'.i = bd.i + 1 <=> leaves_item]_vars
    /\ [][leaves_item =>
             \/ /\ bd.pc = "item"
                /\ \/ bd.videos[bd.i].kind \notin {"str", "yt"}
                   \/ extract_youtube_id(bd.videos[bd.i].url) = ""
                   \/ at'.ret = None
             \/ /\ bd.pc = "check"
                /\ ~dl.reconvert_media
                /\ rows'[CHOOSE k \in 1 .. Len(rows') :
                             rows'[k].youtube_id = bd.youtube_id].status = "completed"
             \/ /\ bd.pc = "wait"
                /\ rt.pc = "ended"
                /\ rt.caller = "batch"
                /\ rt.url = bd.videos[bd.i].url]_vars
    /\ [](bd.pc = "ended" => bd.i = Len(bd.videos) + 1)
    /\ (batch_at_work ~> bd.pc = "ended")

\* The routine raised for the first item, was invoked for the second one,
\* and the batch has reached its end.
C16_Witness ==
    /\ bd.pc = "ended"
    /\ Len(bd.videos) = 2
    /\ bd.videos[1].url = UrlA
    /\ behaviour(UrlA).avail = "VideoUnavailable"
    /\ ~task_exists(TokenA)
    /\ rt.pc = "ended"
    /\ rt.caller = "batch"
    /\ rt.url = bd.videos[2].url
    /\ rt.result = "True"

\* The batch driver has dealt with what the routine did for its item.
item_handled ==
    /\ bd.pc \in {"item", "ended"}
    /\ bd.handled # ""
    /\ rt.pc = "ended"
    /\ rt.caller = "batch"
    /\ rt.url = bd.video_url

\* C17: when the routine fails for an item because of bot detection, the
\* batch driver handles the item in its bot-detection branch and not in the
\* branch of unexpected errors.
C17_BotDetectionHasItsBranch ==
    (/\ item_handled
     /\ rt.result = "raise"
     /\ behaviour(rt.url).avail = "BotDetection") => bd.handled = "bot"

\* The wrapper has made an attempt that is not its first.
retried == rt.pc # "idle" /\ rt.attempt > 1

\* C18: when metadata resolution reports the source unavailable, the
\* routine is attempted once for the item in the batch pass: the failure is
\* not retried.
C18_UnavailableIsNotRetried ==
    (/\ routine_in_view
     /\ rt.caller = "batch"
     /\ behaviour(rt.url).avail = "VideoUnavailable") => ~retried

\* A call of the wrapper is under way and has not ended.
wrapper_at_work == rt.pc \notin {"idle", "ended"}

\* C19: the wrapper makes at most Retries attempts per call; a new attempt
\* starts only after the one before it raised; the call ends at the first
\* attempt that returns, with the value returned, or after the last attempt
\* raised, with an error for the caller; and every call ends.
C19_WrapperMakesAtMostRetriesAttempts ==
    /\ [](rt.pc # "idle" => rt.attempt \in 1 .. Retries)
    /\ [][wrapper_at_work =>
             /\ rt'.url = rt.url
             /\ rt'.attempt \in {rt.attempt, rt.attempt + 1}
             /\ rt'.attempt = rt.attempt + 1 =>
                   rt.pc = "raised" /\ rt'.pc = "enter"
             /\ rt.pc = "raised" =>
                   IF rt.attempt = Retries
                   THEN rt'.pc = "ended" /\ rt'.result = "raise"
                   ELSE rt'.pc = "enter" /\ rt'.attempt = rt.attempt + 1
             /\ (rt'.pc = "ended" /\ rt.pc # "raised") =>
                   rt'.result \in {"True", "False"}]_vars
    /\ (wrapper_at_work ~> rt.pc = "ended")

\* Three attempts have raised and the call has ended with an error.
C19_Witness ==
    /\ rt.pc = "ended"
    /\ rt.attempt = Retries
    /\ rt.result = "raise"
    /\ Len(log) >= rt.log0 + 2 * Retries

\* The collaborator calls of the invocation in view, in order.
calls_of_invocation ==
    [k \in 1 .. (Len(log) - rt.log0) |-> log[rt.log0 + k]]

\* The positions at which the invocation listed the streams.
stream_listings ==
    {k \in 1 .. Len(calls_of_invocation) :
        calls_of_invocation[k] = [url |-> rt.url, op |-> "streams"]}

\* The routine has ended after it needed a video and the collaborator had
\* none to offer, neither for the filter nor as the highest resolution.
no_video_stream ==
    /\ routine_in_view
    /\ rt.pc = "ended"
    /\ rt.task # None
    /\ dl.download_video
    /\ ~path_exists(dl.video_destination_directory, video_full_filename(rt))
    /\ behaviour(rt.url).video_stream = "none"
    /\ stream_listings # {}

\* The routine has ended after it needed an audio stream and the
\* collaborator had none to offer in any of the fallbacks.
no_audio_stream ==
    /\ routine_in_view
    /\ rt.pc = "ended"
    /\ rt.task # None
    /\ dl.download_audio
    /\ ~path_exists(dl.audio_destination_directory,
                    audio_full_filename_with_ext(rt))
    /\ dl.download_video =>
          path_exists(dl.video_destination_directory, video_full_filename(rt))
    /\ select_audio_stream(behaviour(rt.url).audio_streams) = ""
    /\ stream_listings # {}
    /\ calls_of_invocation[Len(calls_of_invocation)].op = "streams"

\* The row of the routine's task is failed with the message.
failed_with(message) ==
    \E i \in 1 .. Len(rows) :
        /\ rows[i].youtube_id = rt.youtube_id
        /\ rows[i].status = "failed"
        /\ rows[i].error_message = message

\* No download is attempted from the listing that found no stream onwards.
no_download_since_listing ==
    \A k \in 1 .. Len(calls_of_invocation) :
        (\E l \in stream_listings : l >= k /\ \A m \in stream_listings : m <= l)
            \/ calls_of_invocation[k].op # "download"

\* C20: when a video is needed and neither the filter nor the fallback
\* yields a stream, or an audio is needed and no fallback yields one, the
\* task is failed with the message "No suitable ... stream found", the
\* routine returns False on its first attempt and attempts no download of
\* the missing stream.
C20_NoStreamFailsWithoutRetry ==
    /\ no_video_stream =>
          /\ failed_with("No suitable video stream found")
          /\ rt.result = "False"
          /\ rt.attempt = 1
          /\ \A k \in 1 .. Len(calls_of_invocation) :
                calls_of_invocation[k].op # "download"
    /\ no_audio_stream =>
          /\ failed_with("No suitable audio stream found")
          /\ rt.result = "False"
          /\ rt.attempt = 1
          /\ no_download_since_listing

\* The routine has ended for want of a video stream.
C20_Witness ==
    /\ no_video_stream
    /\ rt.result = "False"
    /\ failed_with("No suitable video stream found")

\* The routine in view has returned True in a run that is no dry run and
\* has the video and the audio download enabled.
returned_true_full_run ==
    /\ routine_in_view
    /\ rt.pc = "ended"
    /\ rt.result = "True"
    /\ ~dl.dry_run
    /\ dl.download_video
    /\ dl.download_audio

\* C21: whenever the routine returns True in a run that is no dry run and
\* has video and audio download enabled, the row is completed, its two
\* file paths are the destination paths of the final names, and its two
\* hashes are not empty.
C21_TrueMeansPathsAndHashes ==
    returned_true_full_run =>
        \E i \in 1 .. Len(rows) :
            /\ rows[i].youtube_id = extract_youtube_id(rt.url)
            /\ rows[i].status = "completed"
            /\ rows[i].video_filepath =
                  path_join(dl.video_destination_directory,
                            rows[i].final_video_filename)
            /\ rows[i].audio_filepath =
                  path_join(dl.audio_destination_directory,
                            rows[i].final_audio_filename)
            /\ rows[i].video_hash \notin {Null, ""}
            /\ rows[i].audio_hash \notin {Null, ""}

\* The batch driver is at its look for the files of its item, and the
\* outputs the enabled downloads require are at the destination.
required_outputs_exist ==
    /\ bd.pc = "check"
    /\ dl.download_video \/ dl.download_audio
    /\ dl.download_video =>
          path_exists(dl.video_destination_directory,
                      bd.task[1].final_video_filename)
    /\ dl.download_audio =>
          path_exists(dl.audio_destination_directory,
                      bd.task[1].final_audio_filename)

\* C22: for a batch item whose required output files exist at the
\* destination, the batch driver marks the task completed and goes to its
\* next item without invoking the routine, whatever reconvert_media is.
C22_ExistingOutputsAreSkipped ==
    [][required_outputs_exist =>
          /\ bd'.pc \in {"item", "ended"}
          /\ bd'.i = bd.i + 1
          /\ rt' = rt
          /\ \E i \in 1 .. Len(rows') :
                /\ rows'[i].youtube_id = bd.youtube_id
                /\ rows'[i].status = "completed"]_vars

\* The playlist whose videos run() is having processed.
playlist_in_hand == world.playlists[run.playlists[run.k - 1]]

\* C23: once run() has returned, the two destination directories are what
\* they were when it was called, whatever the playlists did; while the
\* videos of a playlist are being processed the two directories are
\* <base>/<safe title> and <base>/<safe title>-Audio of that playlist.
C23_DirectoriesRestored ==
    /\ run.pc = "ended" =>
          /\ dl.video_destination_directory = run.entry_video_dst
          /\ dl.audio_destination_directory = run.entry_audio_dst
    /\ (run.pc = "playlists" /\ bd.caller = "run" /\ batch_at_work) =>
          /\ dl.video_destination_directory =
                path_join(dl.base_path,
                          safe_filename(playlist_in_hand.title, dl.max_file_length))
          /\ dl.audio_destination_directory =
                path_join(dl.base_path,
                          safe_filename(playlist_in_hand.title, dl.max_file_length)
                              \o "-Audio")

\* run() has returned after a playlist whose videos could not be had and
\* one whose videos went to its directory.
C23_Witness ==
    /\ run.pc = "ended"
    /\ Len(run.playlists) = 2
    /\ path_join(BasePath, "Q") \in DOMAIN fs
    /\ \E name \in files_in(fs, path_join(BasePath, "PL")) : TRUE
    /\ dl.video_destination_directory = DefaultVideoDir
    /\ dl.audio_destination_directory = DefaultAudioDir

\* The collaborator operations that save, list for download or download.
AcquiringOps == {"captions", "save_captions", "streams", "download"}

\* C24: in a dry run the routine returns True without saving a caption,
\* downloading a stream, transcoding, muxing, or creating, moving or
\* removing a file.
C24_DryRunTouchesNothing ==
    (routine_in_view /\ dl.dry_run) =>
        /\ fs = rt.fs0
        /\ \A k \in 1 .. Len(calls_of_invocation) :
              calls_of_invocation[k].op \notin AcquiringOps
        /\ (/\ rt.pc = "ended"
            /\ extract_youtube_id(rt.url) # ""
            /\ behaviour(rt.url).avail = "ok"
            /\ ~behaviour(rt.url).length_raises) => rt.result = "True"

\* A dry run of the routine has returned True and marked its task.
C24_Witness ==
    /\ dl.dry_run
    /\ rt.pc = "ended"
    /\ rt.result = "True"
    /\ rt.entry_status = ""
    /\ fs = rt.fs0
    /\ \E i \in 1 .. Len(rows) :
          /\ rows[i].youtube_id = rt.youtube_id
          /\ rows[i].status = "completed"
          /\ rows[i].error_message = "Dry run"

(***************************************************************************)
(* The routine called under every combination of the flags dry_run,        *)
(* download_video, download_audio, download_captions and reconvert_media,  *)
(* set on the downloader as the tests set them.                            *)
(***************************************************************************)
FlagInit ==
    /\ \E dry, video, audio, captions, reconvert \in BOOLEAN :
          dl = [DefaultDownloader EXCEPT !.dry_run = dry,
                                         !.download_video = video,
                                         !.download_audio = audio,
                                         !.download_captions = captions,
                                         !.reconvert_media = reconvert]
    /\ world \in {world_of(PlainVideo),
                  world_of([PlainVideo EXCEPT !.avail = "flaky"])}
    /\ fs = empty_directories
    /\ tm = task_manager_of(DefaultDownloader)
    /\ rows = <<>>
    /\ now = MaxClock
    /\ at = AtIdle
    /\ ops = 0
    /\ run = RunIdle
    /\ bd = BdIdle
    /\ rt = RtIdle
    /\ log = <<>>

FlagNext ==
    \/ call_download(UrlA)
    \/ dl_enter
    \/ dl_init
    \/ dl_title
    \/ dl_mark
    \/ dl_dry_run
    \/ dl_captions
    \/ dl_video
    \/ dl_audio
    \/ dl_merge
    \/ dl_finalize
    \/ wrapper_except

FlagSpec == FlagInit /\ [][FlagNext]_vars

(***************************************************************************)
(* The routine called directly on one video, over the ways the captions,   *)
(* the streams, the clips and the files already on the disk can be.        *)
(***************************************************************************)
KeepingDownloader == [DefaultDownloader EXCEPT !.keep_original_video = TRUE]

NoAudioStreams == [specific |-> "", subtype |-> "", any |-> ""]

MediaVideos ==
    {PlainVideo,
     [PlainVideo EXCEPT !.avail = "flaky"],
     [PlainVideo EXCEPT !.video_kind = "av"],
     [PlainVideo EXCEPT !.video_kind = "av", !.extract_raises = TRUE],
     [PlainVideo EXCEPT !.audio_streams = NoAudioStreams],
     [PlainVideo EXCEPT !.audio_streams = [NoAudioStreams EXCEPT !.any = "itag251"]],
     [PlainVideo EXCEPT !.audio_streams =
         [specific |-> "", subtype |-> "itag139", any |-> "itag251"]],
     [PlainVideo EXCEPT !.audio_download = "fail"],
     [PlainVideo EXCEPT !.caption_codes = {"en", "ja"}],
     [PlainVideo EXCEPT !.caption_codes = {}],
     [PlainVideo EXCEPT !.merge = "load"],
     [PlainVideo EXCEPT !.merge = "load_audio"],
     [PlainVideo EXCEPT !.merge = "write"],
     [PlainVideo EXCEPT !.merge = "remove"],
     [PlainVideo EXCEPT !.merge = "move"]}

\* The files found on the disk: none, or a final video file or a merged
\* file left by an earlier run, whole or broken.
MediaFilesystems ==
    {empty_directories,
     fs_write(empty_directories, DefaultVideoDir, {"abc.mp4"}, "av"),
     fs_write(empty_directories, DefaultVideoDir, {"abc.mp4"}, "video"),
     fs_write(empty_directories, DefaultVideoDir, {"abc.mp4"}, "broken"),
     fs_write(empty_directories, DefaultVideoDir, {"abc_merged.mp4"}, "av"),
     fs_write(empty_directories, DefaultVideoDir, {"abc_merged.mp4"}, "broken")}

MediaInit ==
    /\ dl \in {DefaultDownloader, KeepingDownloader}
    /\ world \in {world_of(video) : video \in MediaVideos}
    /\ fs \in MediaFilesystems
    /\ tm = task_manager_of(DefaultDownloader)
    /\ rows = <<>>
    /\ now = MaxClock
    /\ at = AtIdle
    /\ ops = 0
    /\ run = RunIdle
    /\ bd = BdIdle
    /\ rt = RtIdle
    /\ log = <<>>

MediaNext ==
    \/ call_download(UrlA)
    \/ dl_enter
    \/ dl_init
    \/ dl_title
    \/ dl_mark
    \/ dl_captions
    \/ dl_video
    \/ dl_audio
    \/ dl_merge
    \/ dl_finalize
    \/ wrapper_except

MediaSpec == MediaInit /\ [][MediaNext]_vars

\* The number of downloads the invocation in view has made.
downloads_made ==
    Cardinality({k \in 1 .. Len(calls_of_invocation) :
                    calls_of_invocation[k].op = "download"})

\* The files of a kind that the invocation in view has put where there was
\* none of that name and kind when it began.
new_files(kind) ==
    {<<dir, name>> \in UNION {{<<d, n>> : n \in DOMAIN fs[d]} : d \in DOMAIN fs} :
        /\ fs[dir][name] = kind
        /\ ~(/\ dir \in DOMAIN rt.fs0
             /\ name \in DOMAIN rt.fs0[dir]
             /\ rt.fs0[dir][name] = kind)}

\* C25: a step that the configuration disables is never executed by the
\* routine: with download_video off no video is downloaded, with
\* download_audio off no audio is downloaded or written, with
\* download_captions off no caption is listed or saved, with
\* reconvert_media off nothing is muxed.
C25_DisabledStepsDoNotRun ==
    rt.pc # "idle" =>
        /\ ~dl.download_video =>
              /\ new_files("video") = {}
              /\ new_files("av") = {}
              /\ downloads_made <= (IF dl.download_audio THEN 1 ELSE 0)
        /\ ~dl.download_audio =>
              /\ new_files("audio") = {}
              /\ downloads_made <= (IF dl.download_video THEN 1 ELSE 0)
        /\ ~dl.download_captions =>
              /\ new_files("text") = {}
              /\ \A k \in 1 .. Len(calls_of_invocation) :
                    calls_of_invocation[k].op \notin {"captions", "save_captions"}
        /\ ~dl.reconvert_media => new_files("av") = {}

\* The routine has completed a run that had the audio alone enabled: the
\* audio file is there, and no video, caption or muxed file.
C25_Witness ==
    /\ rt.pc = "ended"
    /\ rt.result = "True"
    /\ rt.entry_status # "completed"
    /\ ~dl.dry_run
    /\ ~dl.download_video
    /\ dl.download_audio
    /\ ~dl.download_captions
    /\ ~dl.reconvert_media
    /\ downloads_made = 1
    /\ new_files("audio") # {}
    /\ new_files("video") = {}

(***************************************************************************)
(* _extract_youtube_id applied to references of the four shapes, through   *)
(* add_task, which calls it first (line 1642) and returns None for "".     *)
(***************************************************************************)
ShapeMarkers == {"watch?v=", "v=", "youtu.be/", "embed/"}
ShapeTokens == {TokenA, "a-b_c0d1e2f"}
ShapePrefixes ==
    {"", "https://www.youtube.com/", "x ", "https://youtu.be/" \o TokenB \o "?"}
ShapeSuffixes == {"", "&t=1s", "Z", "?v=" \o TokenB}

\* Strings in which no marker is followed by eleven token characters.
StringsWithoutId ==
    {"", "https://www.youtube.com/playlist", "watch?v=", "v=short",
     "embed/AAAAAAAAAA!", "youtu.be/1234567890", "AAAAAAAAAAA",
     "V=AAAAAAAAAAA"}

ExtractInputs ==
    {p \o m \o t \o x : p \in ShapePrefixes, m \in ShapeMarkers,
                        t \in ShapeTokens, x \in ShapeSuffixes}
    \cup StringsWithoutId

extract_call(video_url) ==
    /\ ops < MaxExtractCalls
    /\ ops' = ops + 1
    /\ add_task("store", video_url, "abc", 60)
    /\ UNCHANGED fs
    /\ UNCHANGED orchestrator_vars

ExtractInit ==
    /\ StoreInit
    /\ files_in(fs, "dummy_video") = {}
    /\ files_in(fs, "dummy_audio") = {}

ExtractNext == \E video_url \in ExtractInputs : extract_call(video_url)

ExtractSpec == ExtractInit /\ [][ExtractNext]_vars

\* The last application was to string, and it gave id.
extracted_from(string, id) ==
    at.pc = "done" /\ at.video_url = string /\ at.youtube_id = id

\* C26 as stated: the token T is returned for each of the four shapes with
\* any text before and after, and "" for a string without a marker that
\* eleven token characters follow.
C26_TokenOfEveryShape ==
    /\ \A p \in ShapePrefixes, m \in ShapeMarkers,
          t \in ShapeTokens, x \in ShapeSuffixes :
          at.video_url = p \o m \o t \o x => at.youtube_id = t
    /\ at.video_url \in StringsWithoutId => at.youtube_id = ""

\* C26: the token T is returned for each of the four shapes with any text
\* after it and any text before it that holds none of the four markers,
\* and "" for a string without a marker that eleven token characters
\* follow.
C26_TokenOfLeftmostShape ==
    /\ \A p \in ShapePrefixes, m \in ShapeMarkers,
          t \in ShapeTokens, x \in ShapeSuffixes :
          (/\ at.video_url = p \o m \o t \o x
           /\ \A marker \in ShapeMarkers : ~py_in(marker, p)) =>
              at.youtube_id = t
    /\ at.video_url \in StringsWithoutId => at.youtube_id = ""

\* The token was taken out of an embed reference with text before and a
\* second match after.
C26_Witness ==
    extracted_from("x embed/a-b_c0d1e2f?v=" \o TokenB, "a-b_c0d1e2f")

(***************************************************************************)
(* YouTubeDownloader._remove_characters.  A file name is a sequence of     *)
(* code points here, since the first member of the source's set is U+FF5C, *)
(* the fullwidth vertical line, and not U+007C.                            *)
(***************************************************************************)
MaxNameLen == 3

FullwidthBar == 65372
Bar == 124
Comma == 44
Slash == 47
Backslash == 92
Colon == 58
Star == 42
Question == 63
Less == 60
Greater == 62
Quote == 34

illegal_chars_set ==
    {FullwidthBar, Comma, Slash, Backslash, Colon, Star, Question, Less,
     Greater, Quote}

RECURSIVE remove_characters(_)
remove_characters(filename) ==
    IF filename = <<>> THEN <<>>
    ELSE LET char == Head(filename)
             cleaned_filename == remove_characters(Tail(filename))
         IN IF char \notin illegal_chars_set
            THEN <<char>> \o cleaned_filename
            ELSE cleaned_filename

\* The code points file names are made of: the eleven named ones, and
\* "a", "!" and "." of the tests.
NameChars == illegal_chars_set \cup {Bar, 97, 33, 46}

RECURSIVE names_of_length(_)
names_of_length(n) ==
    IF n = 0 THEN {<<>>}
    ELSE {<<c>> \o name : c \in NameChars, name \in names_of_length(n - 1)}

FileNames == UNION {names_of_length(n) : n \in 0 .. MaxNameLen}

\* One application to one name of FileNames.
remove_call(filename) ==
    /\ "fn" \notin DOMAIN at
    /\ at' = [pc |-> "done", fn |-> "_remove_characters",
              filename |-> filename, ret |-> remove_characters(filename)]
    /\ UNCHANGED <<rows, now, ops, fs, tm>>
    /\ UNCHANGED orchestrator_vars

RemoveNext == \E filename \in FileNames : remove_call(filename)

RemoveSpec == ExtractInit /\ [][RemoveNext]_vars

\* The characters the specification lists: | , / \ : * ? < > "
ListedChars ==
    {Bar, Comma, Slash, Backslash, Colon, Star, Question, Less, Greater, Quote}

RECURSIVE without_listed(_)
without_listed(name) ==
    IF name = <<>> THEN <<>>
    ELSE IF Head(name) \in ListedChars THEN without_listed(Tail(name))
         ELSE <<Head(name)>> \o without_listed(Tail(name))

removed_from ==
    at.pc = "done" /\ "fn" \in DOMAIN at /\ at.fn = "_remove_characters"

\* C29: _remove_characters returns its input without the characters
\* | , / \ : * ? < > " and with every other character in its place; a
\* string that has none of them is returned as it is.
C29_ListedCharactersRemoved ==
    removed_from => at.ret = without_listed(at.filename)

(***************************************************************************)
(* The two audits: _find_duplicated_titles_in_playlists and                *)
(* _compare_playlist_downloads.                                            *)
(***************************************************************************)
MaxMembers == 3

\* Lines 378-404.  The titles and file names here are made of ASCII
\* characters, which unicodedata.normalize("NFKC", ...) and the replacement
\* of U+3000 leave as they are; helpers.safe_filename does the rest.
get_comparable_name(original_string, max_file_length) ==
    safe_filename(original_string, max_file_length)

\* video.title of a member whose title is settled.
title_of(video) == CHOOSE title \in video.titles : TRUE

\* [video.title for video in playlist.videos]
video_titles_of(w, playlist) ==
    [i \in 1 .. Len(playlist.videos) |-> title_of(w.videos[playlist.videos[i]])]

\* A loop that compares the titles as they are, not normalized.
RECURSIVE duplicated_original_titles_raw(_, _, _)
duplicated_original_titles_raw(video_titles, seen_titles, max_file_length) ==
    IF video_titles = <<>> THEN <<>>
    ELSE LET title == Head(video_titles)
         IN IF title \in seen_titles
            THEN <<title>> \o duplicated_original_titles_raw(
                                 Tail(video_titles), seen_titles, max_file_length)
            ELSE duplicated_original_titles_raw(
                     Tail(video_titles), seen_titles \cup {title}, max_file_length)

\* Lines 1339-1347: the loop over the titles of one playlist.
RECURSIVE duplicated_original_titles(_, _, _)
duplicated_original_titles(video_titles, seen_normalized_titles, max_file_length) ==
    IF video_titles = <<>> THEN <<>>
    ELSE LET title == Head(video_titles)
             normalized_title == get_comparable_name(title, max_file_length)
         IN IF normalized_title \in seen_normalized_titles
            THEN <<title>> \o duplicated_original_titles(
                                 Tail(video_titles), seen_normalized_titles,
                                 max_file_length)
            ELSE duplicated_original_titles(
                     Tail(video_titles),
                     seen_normalized_titles \cup {normalized_title},
                     max_file_length)

\* Lines 1332-1375: the loop over the playlists; a playlist whose title or
\* members cannot be had adds nothing.
RECURSIVE all_duplicated_titles(_, _, _)
all_duplicated_titles(playlist_urls, w, max_file_length) ==
    IF playlist_urls = <<>> THEN <<>>
    ELSE LET playlist == w.playlists[Head(playlist_urls)]
             found == IF playlist.raises # "no" THEN <<>>
                      ELSE duplicated_original_titles(
                               video_titles_of(w, playlist), {}, max_file_length)
         IN found \o all_duplicated_titles(Tail(playlist_urls), w, max_file_length)

\* YTPlaylist(playlist_url), once for each playlist.
RECURSIVE playlists_fetched(_, _)
playlists_fetched(l, playlist_urls) ==
    IF playlist_urls = <<>> THEN l
    ELSE playlists_fetched(fetched(l, Head(playlist_urls), <<"playlist">>),
                           Tail(playlist_urls))

\* Lines 1324-1376.
find_duplicated_titles_in_playlists(playlist_urls) ==
    /\ run.pc = "idle"
    /\ run' = [pc |-> "done", fn |-> "_find_duplicated_titles_in_playlists",
               playlists |-> playlist_urls,
               ret |-> all_duplicated_titles(playlist_urls, world,
                                             dl.max_file_length)]
    /\ log' = playlists_fetched(log, playlist_urls)
    /\ UNCHANGED <<rows, now, fs, tm, at, ops, dl, world, bd, rt>>

\* glob.glob(os.path.join(dir, "*.ext")) and the basenames without the
\* extension (lines 1211-1222).
downloaded_basenames(f, dir, ext) ==
    LET tail == "." \o ext
        downloaded == {n \in files_in(f, dir) :
                          /\ Len(n) >= Len(tail)
                          /\ SubSeq(n, Len(n) - Len(tail) + 1, Len(n)) = tail
                          /\ SubSeq(n, 1, 1) # "."}
    IN {SubSeq(n, 1, Len(n) - Len(tail)) : n \in downloaded}

\* A choice that takes the audios' names when the lists are equally long.
target_set_audio_on_tie(video_basenames, audio_basenames, max_file_length) ==
    IF Cardinality(video_basenames) > Cardinality(audio_basenames)
    THEN {get_comparable_name(item, max_file_length) : item \in video_basenames}
    ELSE {get_comparable_name(item, max_file_length) : item \in audio_basenames}

\* Lines 1273-1278: the set of the longer list of normalized names, the
\* videos' on equal lengths.  A list has one entry for each file.
normalized_target_set(video_basenames, audio_basenames, max_file_length) ==
    IF Cardinality(video_basenames) >= Cardinality(audio_basenames)
    THEN {get_comparable_name(item, max_file_length) : item \in video_basenames}
    ELSE {get_comparable_name(item, max_file_length) : item \in audio_basenames}

\* Lines 1280-1294: the comparable titles reported as missing, as a bag.
\* The source goes through the titles in sorted order; the bag is the same
\* in any order.
RECURSIVE missing_titles(_, _, _)
missing_titles(youtube_titles, target_set, max_file_length) ==
    IF youtube_titles = <<>> THEN EmptyBag
    ELSE LET comparable_yt_title ==
                 get_comparable_name(Head(youtube_titles), max_file_length)
             rest == missing_titles(Tail(youtube_titles), target_set,
                                    max_file_length)
         IN IF comparable_yt_title \notin target_set
            THEN rest (+) SetToBag({comparable_yt_title})
            ELSE rest

\* The code points of the characters of the titles audited, by which
\* Python orders strings.
code_point == ("," :> 44 @@ ":" :> 58 @@ "a" :> 97 @@ "b" :> 98
               @@ "c" :> 99 @@ "d" :> 100)

\* Python's s < t on strings.
RECURSIVE py_str_less(_, _)
py_str_less(s, t) ==
    IF Len(t) = 0 THEN FALSE
    ELSE IF Len(s) = 0 THEN TRUE
    ELSE LET c == code_point[SubSeq(s, 1, 1)]
             d == code_point[SubSeq(t, 1, 1)]
         IN IF c # d THEN c < d
            ELSE py_str_less(SubSeq(s, 2, Len(s)), SubSeq(t, 2, Len(t)))

\* item put into an ascending list, after the entries not above it.
RECURSIVE py_insort(_, _)
py_insort(list, item) ==
    IF list = <<>> THEN <<item>>
    ELSE IF py_str_less(item, Head(list)) THEN <<item>> \o list
    ELSE <<Head(list)>> \o py_insort(Tail(list), item)

\* Python's sorted(list) on a list of strings.
RECURSIVE py_sorted(_)
py_sorted(list) ==
    IF list = <<>> THEN <<>>
    ELSE py_insort(py_sorted(Tail(list)), Head(list))

\* Python's list.index(item) for an item of the list, counted from 1.
py_index(list, item) ==
    CHOOSE i \in 1 .. Len(list) :
        list[i] = item /\ \A j \in 1 .. i - 1 : list[j] # item

\* Lines 1291-1294: the original title logged for a missing comparable
\* title is the one at the comparable title's first position in the sorted
\* list of comparable titles, taken from the sorted list of original titles.
original_title_at(youtube_titles, normalized_youtube_titles, comparable_yt_title, max_file_length) ==
    youtube_titles[py_index(normalized_youtube_titles, comparable_yt_title)]

\* Lines 1264-1298: the pairs logged as "Missing file detected", in the
\* order of the log.
missing_logged(video_titles, target_set, max_file_length) ==
    LET youtube_titles == py_sorted(video_titles)
        normalized_youtube_titles ==
            py_sorted([i \in 1 .. Len(youtube_titles) |->
                          get_comparable_name(youtube_titles[i],
                                              max_file_length)])
        entry(i) ==
            [original_title |->
                 original_title_at(youtube_titles, normalized_youtube_titles,
                                   normalized_youtube_titles[i],
                                   max_file_length),
             comparable_title |-> normalized_youtube_titles[i]]
        RECURSIVE from(_)
        from(i) ==
            IF i > Len(normalized_youtube_titles) THEN <<>>
            ELSE IF normalized_youtube_titles[i] \notin target_set
                 THEN <<entry(i)>> \o from(i + 1)
                 ELSE from(i + 1)
    IN from(1)

\* Lines 1187-1307 for one playlist: None when its title or members cannot
\* be had, else the report.
playlist_report(playlist_url, w, f, d) ==
    LET playlist == w.playlists[playlist_url]
        safe_title == safe_filename(playlist.title, d.max_file_length)
        current_video_dst == path_join(d.base_path, safe_title)
        current_audio_dst == path_join(d.base_path, safe_title \o "-Audio")
        target_set ==
            normalized_target_set(
                downloaded_basenames(f, current_video_dst, d.video_extension),
                downloaded_basenames(f, current_audio_dst, d.audio_extension),
                d.max_file_length)
    IN IF playlist.raises # "no" THEN None
       ELSE Some([playlist_url |-> playlist_url,
                  missing |-> missing_titles(video_titles_of(w, playlist),
                                             target_set, d.max_file_length),
                  logged |-> missing_logged(video_titles_of(w, playlist),
                                            target_set, d.max_file_length)])

\* Lines 1182-1322.
compare_playlist_downloads(playlist_urls) ==
    /\ run.pc = "idle"
    /\ run' = [pc |-> "done", fn |-> "_compare_playlist_downloads",
               playlists |-> playlist_urls,
               ret |-> [k \in 1 .. Len(playlist_urls) |->
                           playlist_report(playlist_urls[k], world, fs, dl)]]
    /\ log' = playlists_fetched(log, playlist_urls)
    /\ UNCHANGED <<rows, now, fs, tm, at, ops, dl, world, bd, rt>>

\* The member lists, the lengths and the files the audits are run on.
AuditTitles == {"ab", "a:b", "cd", ":d"}

RECURSIVE title_lists(_)
title_lists(n) ==
    IF n = 0 THEN {<<>>}
    ELSE {<<t>> \o l : t \in AuditTitles, l \in title_lists(n - 1)}

AuditLengths == {255, 1}
AuditVideoFiles == {"ab.mp4", "a,b.mp4", "cd.txt"}
AuditAudioFiles == {"ab.mp3", "cd.mp3"}
AuditPlaylists == {<<PlaylistUrl>>, <<PlaylistBroken, PlaylistUrl>>}

\* The world in which the members of PlaylistUrl have the titles given.
audit_world(titles) ==
    [videos |-> [i \in 1 .. Len(titles) |->
                    [PlainVideo EXCEPT !.titles = {titles[i]}]],
     playlists |->
        [Playlists EXCEPT
            ![PlaylistUrl].videos = [i \in 1 .. Len(titles) |-> i]]]

\* The directory of PlaylistUrl's videos, or with "-Audio" of its audios
\* (lines 1197-1206).
audit_directory(d, ending) ==
    path_join(d.base_path,
              safe_filename(Playlists[PlaylistUrl].title, d.max_file_length)
              \o ending)

AuditInit ==
    /\ \E n \in 0 .. MaxMembers : \E titles \in title_lists(n) :
          world = audit_world(titles)
    /\ \E max_file_length \in AuditLengths :
          dl = [DefaultDownloader EXCEPT !.max_file_length = max_file_length]
    /\ \E videos \in SUBSET AuditVideoFiles, audios \in SUBSET AuditAudioFiles :
          fs = (audit_directory(dl, "") :> directory_of(videos, "video")
                @@ audit_directory(dl, "-Audio") :> directory_of(audios, "audio"))
    /\ tm = task_manager_of(DefaultDownloader)
    /\ rows = <<>>
    /\ now = MaxClock
    /\ at = AtIdle
    /\ ops = 0
    /\ run = RunIdle
    /\ bd = BdIdle
    /\ rt = RtIdle
    /\ log = <<>>

AuditNext ==
    \E playlist_urls \in AuditPlaylists :
       \/ find_duplicated_titles_in_playlists(playlist_urls)
       \/ compare_playlist_downloads(playlist_urls)

AuditSpec == AuditInit /\ [][AuditNext]_vars

\* The duplicate-title audit has been run on PlaylistUrl alone.
duplicates_audited ==
    /\ run.pc = "done"
    /\ run.fn = "_find_duplicated_titles_in_playlists"
    /\ run.playlists = <<PlaylistUrl>>

\* The member titles of PlaylistUrl and their normalized forms.
audited_titles == video_titles_of(world, world.playlists[PlaylistUrl])
normalized(title) == get_comparable_name(title, dl.max_file_length)

\* The positions whose normalized title is that of an earlier position.
repeating_positions ==
    {i \in 1 .. Len(audited_titles) :
        \E j \in 1 .. i - 1 :
           normalized(audited_titles[j]) = normalized(audited_titles[i])}

\* C27: for one playlist the audit returns the titles of exactly the entries
\* whose normalized title is that of an earlier entry, in list order; their
\* number is the number of entries less the number of distinct normalized
\* titles.
C27_DuplicatesAreTheRepeats ==
    duplicates_audited =>
       /\ Len(run.ret) = Cardinality(repeating_positions)
       /\ \A k \in 1 .. Len(run.ret) :
             \E i \in repeating_positions :
                /\ Cardinality({j \in repeating_positions : j <= i}) = k
                /\ run.ret[k] = audited_titles[i]
       /\ Len(run.ret) =
             Len(audited_titles)
             - Cardinality({normalized(audited_titles[i]) :
                               i \in 1 .. Len(audited_titles)})

\* Two of three entries normalize to one title, and the second of them is
\* the one title returned.
C27_Witness ==
    /\ duplicates_audited
    /\ audited_titles = <<"ab", "cd", "a:b">>
    /\ dl.max_file_length = 255
    /\ run.ret = <<"a:b">>

\* The normalized names of the files on the disk for PlaylistUrl.
normalized_on_disk(dir, ext) ==
    {normalized(item) : item \in downloaded_basenames(fs, dir, ext)}

\* The larger of the two normalized sets, the videos' when they are equal
\* in size.
larger_normalized_set ==
    LET videos == normalized_on_disk(audit_directory(dl, ""),
                                     dl.video_extension)
        audios == normalized_on_disk(audit_directory(dl, "-Audio"),
                                     dl.audio_extension)
    IN IF Cardinality(videos) >= Cardinality(audios) THEN videos ELSE audios

\* The normalized set of the kind of which there are more files, the
\* videos' when there are as many of each.
normalized_set_of_more_files ==
    LET video_dir == audit_directory(dl, "")
        audio_dir == audit_directory(dl, "-Audio")
    IN IF Cardinality(downloaded_basenames(fs, video_dir, dl.video_extension))
          >= Cardinality(downloaded_basenames(fs, audio_dir, dl.audio_extension))
       THEN normalized_on_disk(video_dir, dl.video_extension)
       ELSE normalized_on_disk(audio_dir, dl.audio_extension)

\* The missing-file audit has been run.
downloads_compared == run.pc = "done" /\ run.fn = "_compare_playlist_downloads"

\* The number of entries of PlaylistUrl whose normalized title is title.
entries_titled(title) ==
    Cardinality({i \in 1 .. Len(audited_titles) :
                    normalized(audited_titles[i]) = title})

\* What the audit reported for PlaylistUrl is one report for each entry
\* whose normalized title is not in on_disk, and nothing else.
missing_are_absent_from(on_disk) ==
    downloads_compared =>
       \A k \in 1 .. Len(run.playlists) :
          run.playlists[k] = PlaylistUrl =>
             /\ run.ret[k] # None
             /\ \A title \in {normalized(t) : t \in AuditTitles} :
                   CopiesIn(title, run.ret[k][1].missing) =
                      IF title \in on_disk THEN 0 ELSE entries_titled(title)

\* C28 as stated: the missing-file audit reports a normalized title, once
\* for each entry, if and only if it is absent from the larger of the
\* normalized video set and the normalized audio set on the disk (the video
\* set on a tie), and it changes neither the tasks, the files nor the
\* destination directories.
C28_MissingAreAbsentFromLargerSet ==
    [][(run.pc = "idle" /\ downloads_compared') =>
          /\ UNCHANGED <<rows, fs, dl>>
          /\ missing_are_absent_from(larger_normalized_set)']_vars

\* C28: the missing-file audit reports a normalized title, once for each
\* entry, if and only if it is absent from the normalized set of the kind,
\* video or audio, of which there are more files on the disk (the video set
\* when there are as many), and it changes neither the tasks, the files nor
\* the destination directories.
C28_MissingAreAbsentFromSetOfMoreFiles ==
    [][(run.pc = "idle" /\ downloads_compared') =>
          /\ UNCHANGED <<rows, fs, dl>>
          /\ missing_are_absent_from(normalized_set_of_more_files)']_vars

\* Two video files of one normalized name and two audio files of two: the
\* entry "cd" is reported, since the video files are as many.
C28_Witness ==
    /\ downloads_compared
    /\ run.playlists = <<PlaylistUrl>>
    /\ dl.max_file_length = 255
    /\ files_in(fs, audit_directory(dl, "")) = {"ab.mp4", "a,b.mp4"}
    /\ files_in(fs, audit_directory(dl, "-Audio")) = {"ab.mp3", "cd.mp3"}
    /\ audited_titles = <<"ab", "cd">>
    /\ run.ret[1][1].missing = SetToBag({"cd"})

\* The routine is at its video step, which is enabled, and the final video
\* file is at the destination.
video_file_in_place ==
    /\ rt.pc = "video"
    /\ dl.download_video
    /\ video_full_filename(rt) \in files_in(fs, dl.video_destination_directory)

\* The routine is at its audio step, which is enabled, and the final audio
\* file is at the destination.
audio_file_in_place ==
    /\ rt.pc = "audio"
    /\ dl.download_audio
    /\ audio_full_filename_with_ext(rt)
          \in files_in(fs, dl.audio_destination_directory)

\* C30: with the final video file at the destination the routine lists no
\* streams and downloads nothing at its video step, and goes on to the audio
\* step; with the final audio file at the destination it neither extracts,
\* downloads nor writes audio, and goes on to the merge; in neither case is
\* the task marked failed.
C30_FilesInPlaceAreNotFetchedAgain ==
    [][/\ video_file_in_place =>
             rt'.pc = "audio" /\ UNCHANGED <<log, fs, rows>>
       /\ audio_file_in_place =>
             rt'.pc = "merge" /\ UNCHANGED <<log, fs, rows>>]_vars

\* The routine has come to the merge with both files in place since before
\* it began, and has not asked the collaborator for streams.
C30_Witness ==
    /\ routine_in_view
    /\ rt.pc = "merge"
    /\ dl.download_video /\ dl.download_audio
    /\ video_full_filename(rt) \in files_in(rt.fs0, dl.video_destination_directory)
    /\ audio_full_filename_with_ext(rt)
          \in files_in(rt.fs0, dl.audio_destination_directory)
    /\ stream_listings = {}
    /\ downloads_made = 0

\* The routine is at its audio step, which is enabled, and the final audio
\* file is not at the destination: audio is to be acquired.
audio_acquisition ==
    /\ rt.pc = "audio"
    /\ dl.download_audio
    /\ audio_full_filename_with_ext(rt)
          \notin files_in(fs, dl.audio_destination_directory)

\* The final video file is at the destination and has an audio track.
video_with_audio_track ==
    /\ video_full_filename(rt) \in files_in(fs, dl.video_destination_directory)
    /\ fs[dl.video_destination_directory][video_full_filename(rt)] = "av"

\* C31: in the audio step, when the final video file is at the destination
\* with an audio track and opening it does not raise, the audio is taken
\* from that file and the collaborator is asked for no streams and no
\* download; streams are asked for only when the file yields no audio or
\* opening it raises.
C31_AudioComesFromTheVideoFile ==
    [][audio_acquisition =>
          /\ (video_with_audio_track /\ ~behaviour(rt.url).extract_raises) =>
                /\ log' = log
                /\ rt'.audio_stream = ""
                /\ rt'.pc = "merge" => rt'.audio_clip = "extracted"
          /\ log' # log =>
                ~video_with_audio_track \/ behaviour(rt.url).extract_raises]_vars

\* The audio file has been written from the audio track of the video file:
\* the one download of the invocation is the video's.
C31_Witness ==
    /\ routine_in_view
    /\ rt.pc = "merge"
    /\ rt.audio_clip = "extracted"
    /\ <<dl.audio_destination_directory, audio_full_filename_with_ext(rt)>>
          \in new_files("audio")
    /\ downloads_made = 1
    /\ Cardinality(stream_listings) = 1

\* The results of the three audio queries, in the order they are made.
audio_queries ==
    LET all_streams == behaviour(rt.url).audio_streams
    IN <<all_streams.specific, all_streams.subtype, all_streams.any>>

\* The step has asked for a download.
download_asked ==
    /\ Len(log) > 0
    /\ log[Len(log)] = [url |-> rt.url, op |-> "download"]

\* C32: when the video file yields no audio and the streams can be listed,
\* the stream downloaded is the result of the first of the three queries
\* (mime type and bitrate, audio only of the subtype, any audio only) that
\* is not empty, and the task is failed for lack of an audio stream exactly
\* when all three are empty.
C32_FirstAudioQueryThatFinds ==
    [][(/\ audio_acquisition
        /\ ~video_with_audio_track \/ behaviour(rt.url).extract_raises
        /\ ~behaviour(rt.url).streams_raise) =>
          /\ (\E k \in 1 .. 3 : audio_queries[k] # "") =>
                /\ download_asked' /\ Len(log') = Len(log) + 2
                /\ \E k \in 1 .. 3 :
                      /\ audio_queries[k] # ""
                      /\ \A j \in 1 .. k - 1 : audio_queries[j] = ""
                      /\ rt'.audio_stream = audio_queries[k]
                /\ ~failed_with("No suitable audio stream found")'
          /\ (\A k \in 1 .. 3 : audio_queries[k] = "") =>
                /\ Len(log') = Len(log) + 1 /\ ~download_asked'
                /\ rt'.pc = "ended" /\ rt'.result = "False"
                /\ failed_with("No suitable audio stream found")']_vars

\* The first query found nothing and the second did: its stream is the one
\* that has been downloaded.
C32_Witness ==
    /\ routine_in_view
    /\ rt.pc = "merge"
    /\ audio_queries[1] = "" /\ audio_queries[2] # ""
    /\ audio_queries[3] # audio_queries[2]
    /\ rt.audio_clip = "downloaded"
    /\ rt.audio_stream = audio_queries[2]
    /\ downloads_made = 2

\* The routine is at its captions step, which is enabled, and the tracks
\* can be listed.
captions_export ==
    /\ rt.pc = "captions"
    /\ dl.download_captions
    /\ ~behaviour(rt.url).captions_raise

\* The number of saves asked for by the invocation in view.
saves_asked(l) ==
    Cardinality({k \in rt.log0 + 1 .. Len(l) :
                    l[k] = [url |-> rt.url, op |-> "save_captions"]})

\* C33: the captions step attempts every track; a track that fails is
\* passed over: the other tracks are attempted, the tasks are left as they
\* are and the routine goes on to its video step.
C33_FailingTrackIsPassedOver ==
    [][captions_export =>
          /\ rt'.captions_attempted = behaviour(rt.url).caption_codes
          /\ rows' = rows
          /\ rt'.pc = "video"]_vars

\* Two tracks have been attempted and have failed: no save was reached, no
\* caption file is on the disk, and the routine is at its video step with
\* its task in progress.
C33_Witness ==
    /\ routine_in_view
    /\ rt.pc = "video"
    /\ rt.captions_attempted = {"en", "ja"}
    /\ saves_asked(log) = 0
    /\ \A code \in {"en", "ja"} :
          (video_full_filename(rt) \o "." \o code \o ".txt")
              \notin files_in(fs, dl.video_destination_directory)
    /\ \E i \in 1 .. Len(rows) :
          rows[i].youtube_id = rt.youtube_id /\ rows[i].status = "in_progress"

\* The name the merged file is to have in the video directory.
merge_destination ==
    IF dl.keep_original_video THEN merged_video_temp_filename(rt)
    ELSE video_full_filename(rt)

\* The routine is at its merge step, the merge is to be made, and the file
\* at the merge destination has an audio track.
merged_file_in_place ==
    /\ rt.pc = "merge"
    /\ dl.reconvert_media
    /\ video_full_filename(rt) \in files_in(fs, dl.video_destination_directory)
    /\ audio_full_filename_with_ext(rt)
          \in files_in(fs, dl.audio_destination_directory)
    /\ merge_destination \in files_in(fs, dl.video_destination_directory)
    /\ fs[dl.video_destination_directory][merge_destination] = "av"

\* C34: in the merge step, when the file at the merge destination exists
\* with an audio track, nothing is muxed, no file is removed or moved, the
\* task is marked completed and the routine returns True.
C34_MergedFileIsLeftAlone ==
    [][merged_file_in_place =>
          /\ fs' = fs
          /\ rt'.pc = "ended" /\ rt'.result = "True"
          /\ \E i \in 1 .. Len(rows') :
                /\ rows'[i].youtube_id = rt.youtube_id
                /\ rows'[i].status = "completed"]_vars

\* The routine has returned True from its merge step, where it found a file
\* with an audio track at the merge destination; no merged file has been
\* written to the working directory.
C34_Witness ==
    /\ routine_in_view
    /\ rt.pc = "ended" /\ rt.result = "True"
    /\ rt.opened = {"existing_video_clip"}
    /\ behaviour(rt.url).merge # "ok"
    /\ fs[dl.video_destination_directory][merge_destination] = "av"
    /\ merged_video_temp_filename(rt) \notin files_in(fs, TempFolder)

\* The routine has left its merge step.
merge_step_left == rt.pc \in {"final", "ended", "raised"}

\* C35: every clip opened in the merge step has been closed when the step
\* is left, however it is left: merged, failed while loading, muxing or
\* moving, returning from the check for a merged file, or after that check
\* could not open the file.
C35_ClipsOfTheMergeAreClosed ==
    merge_step_left => rt.opened \subseteq rt.closed

\* The mux has failed with the video clip and the audio clip open, and both
\* have been closed.
C35_Witness ==
    /\ routine_in_view
    /\ rt.pc = "ended" /\ rt.result = "False"
    /\ behaviour(rt.url).merge = "write"
    /\ {"video_clip_to_merge", "audio_clip_to_merge"} \subseteq rt.opened
    /\ rt.closed = rt.opened

\* C39: when the merge step fails, be it while loading the clips, muxing,
\* removing the original or moving the merged file, a file of the name
\* final_video_filename is in the video directory afterwards.
C39_FailedMergeKeepsTheVideo ==
    [][(rt.pc = "merge" /\ rt'.pc = "ended" /\ rt'.result = "False") =>
          video_full_filename(rt)
              \in files_in(fs', dl.video_destination_directory)]_vars

\* The files the downloader is set to produce for the task of row i are in
\* the destination directories the task was processed in.
enabled_artifacts_on_disk(i) ==
    /\ dl.download_video =>
          path_exists(dl.video_destination_directory,
                      rows[i].final_video_filename)
    /\ dl.download_audio =>
          path_exists(dl.audio_destination_directory,
                      rows[i].final_audio_filename)

\* C38: in every state, a task whose status is completed has its final
\* video file on the disk when the video download is enabled and its final
\* audio file when the audio download is enabled, whether the status was
\* set by the final step, by the return for a merged file, or by a dry run.
C38_CompletedMeansFilesOnDisk ==
    \A i \in 1 .. Len(rows) :
        rows[i].status = "completed" => enabled_artifacts_on_disk(i)

\* C40: for every playlist, the original title logged next to a missing
\* comparable title is a title of the playlist whose normalized form is
\* that comparable title, also when the titles sort otherwise than their
\* normalized forms.
C40_LoggedOriginalNormalizesToComparable ==
    downloads_compared =>
       \A k \in 1 .. Len(run.playlists) :
          run.ret[k] # None =>
             \A i \in 1 .. Len(run.ret[k][1].logged) :
                LET entry == run.ret[k][1].logged[i]
                IN /\ \E j \in 1 .. Len(audited_titles) :
                         audited_titles[j] = entry.original_title
                   /\ normalized(entry.original_title) = entry.comparable_title

(***************************************************************************)
(* The content-hash variant: _download_youtube_video of                    *)
(* src/run_keep_duplicated.py.  It stages every download in                *)
(* temp_download_folder under names that carry a session token, hashes the *)
(* staged file, looks in the destination for a file of the same hash, and  *)
(* only then moves the staged file to a free name; a finally clause removes *)
(* the staged files of the session.  The content of a file stands for its  *)
(* sha256.                                                                 *)
(***************************************************************************)
\* src/run_keep_duplicated.py:572, "if counter > 100".
MaxSuffixCounter == 100

KdTempFolder == "./temp_downloads"

\* Lines 47-146, the switches as a caller sets them.
KdDownloader ==
    [dry_run |-> FALSE,
     download_video |-> FALSE,
     download_audio |-> TRUE,
     download_captions |-> TRUE,
     reconvert_media |-> FALSE,
     enable_playlist_download |-> TRUE,
     enable_channel_download |-> FALSE,
     enable_quick_search_download |-> FALSE,
     base_path |-> BasePath,
     video_destination_directory |-> DefaultVideoDir,
     audio_destination_directory |-> DefaultAudioDir,
     temp_download_folder |-> KdTempFolder,
     video_extension |-> "mp4",
     audio_extension |-> "mp3",
     audio_mime_type |-> "mp4",
     max_file_length |-> 63]

\* sub occurs in s.
occurs_in(sub, s) ==
    \E i \in 1 .. Len(s) - Len(sub) + 1 : SubSeq(s, i, i + Len(sub) - 1) = sub

\* fnmatch.translate: the position of the "]" that closes the class opened
\* by the "[" at the head of pat, 0 when there is none and "[" stands for
\* itself.
class_end(pat) ==
    LET n == Len(pat)
        j1 == IF n >= 2 /\ SubSeq(pat, 2, 2) = "!" THEN 3 ELSE 2
        j2 == IF j1 <= n /\ SubSeq(pat, j1, j1) = "]" THEN j1 + 1 ELSE j1
        closing == {j \in j2 .. n : SubSeq(pat, j, j) = "]"}
    IN IF closing = {} THEN 0
       ELSE CHOOSE j \in closing : \A k \in closing : j <= k

\* c is of the class written between the brackets (the classes of the
\* titles here hold no range).
in_class(c, stuff) ==
    IF Len(stuff) >= 1 /\ SubSeq(stuff, 1, 1) = "!"
    THEN ~ \E i \in 2 .. Len(stuff) : SubSeq(stuff, i, i) = c
    ELSE \E i \in 1 .. Len(stuff) : SubSeq(stuff, i, i) = c

\* fnmatch.fnmatchcase(name, pat).
RECURSIVE fnmatch(_, _)
fnmatch(name, pat) ==
    IF Len(pat) = 0 THEN Len(name) = 0
    ELSE LET c == SubSeq(pat, 1, 1)
             name_rest == SubSeq(name, 2, Len(name))
         IN IF c = "*"
            THEN \E k \in 0 .. Len(name) :
                    fnmatch(SubSeq(name, k + 1, Len(name)),
                            SubSeq(pat, 2, Len(pat)))
            ELSE IF c = "?"
            THEN Len(name) >= 1 /\ fnmatch(name_rest, SubSeq(pat, 2, Len(pat)))
            ELSE IF c = "[" /\ class_end(pat) # 0
            THEN /\ Len(name) >= 1
                 /\ in_class(SubSeq(name, 1, 1),
                             SubSeq(pat, 2, class_end(pat) - 1))
                 /\ fnmatch(name_rest,
                            SubSeq(pat, class_end(pat) + 1, Len(pat)))
            ELSE /\ Len(name) >= 1
                 /\ SubSeq(name, 1, 1) = c
                 /\ fnmatch(name_rest, SubSeq(pat, 2, Len(pat)))

\* glob.glob(os.path.join(dir, pat)) for a directory name without pattern
\* characters: the names of the directory that match, those with a leading
\* dot only for a pattern with a leading dot.
glob(f, dir, pat) ==
    {name \in files_in(f, dir) :
        /\ (SubSeq(name, 1, 1) = ".") => (SubSeq(pat, 1, 1) = ".")
        /\ fnmatch(name, pat)}

\* What the collaborators do for the one video of the variant's runs.
KdPlainVideo ==
    [avail |-> "ok",
     title |-> "ab",
     video_stream |-> "found",
     video_download |-> "ok",
     video_kind |-> "video",
     extract_raises |-> FALSE,
     audio_stream |-> "found",
     audio_download |-> "ok",
     write_audio |-> "ok",
     merge |-> "ok",
     captions |-> {"en"},
     caption_fails |-> {},
     move |-> "ok",
     remove |-> "ok"]

\* The frame of the variant's routine; a path is the name of the file in
\* temp_download_folder, "" for None.
KdIdle ==
    [pc |-> "idle", url |-> "", result |-> "", temp_id |-> "",
     filename_base |-> "",
     temp_video_download_path |-> "",
     temp_audio_download_path |-> "",
     final_file_to_hash_path |-> "",
     new_content_hash |-> "",
     final_target |-> ""]

\* The frame of the variant's run().
KdRunIdle ==
    [pc |-> "idle", playlist_urls |-> <<>>, k |-> 0, videos |-> <<>>,
     original_global_video_dst |-> "", original_global_audio_dst |-> ""]

\* str(uuid.uuid4()): one of the tokens a session can draw.
KdTokens == {"T1", "T2"}

\* Lines 406, 453, 463, 484, 499: the names of the staged files.
temp_video_filename(frame) ==
    frame.filename_base \o "_" \o frame.temp_id \o "." \o dl.video_extension
temp_audio_filename(frame) ==
    frame.filename_base \o "_audio_" \o frame.temp_id \o "." \o dl.audio_mime_type
temp_audio_output_filename(frame) ==
    frame.filename_base \o "_converted_audio_" \o frame.temp_id \o "."
        \o dl.audio_extension
temp_merged_filename(frame) ==
    frame.filename_base \o "_merged_" \o frame.temp_id \o "." \o dl.video_extension
temp_audiofile(frame) == "_temp_audio_merge_" \o frame.temp_id \o ".m4a"

\* A return or an exception inside the try (lines 378-612): the finally
\* clause is next, and the result is handed back after it.
kd_leave(frame, result) == [frame EXCEPT !.pc = "cleanup", !.result = result]

kd_unchanged == UNCHANGED <<rows, now, tm, at, ops, dl, world, run, bd, log>>

kd_call(url) ==
    /\ rt.pc = "idle"
    /\ run.pc = "idle"
    /\ rt' = [KdIdle EXCEPT !.pc = "init", !.url = url]
    /\ UNCHANGED fs
    /\ kd_unchanged

\* Lines 336-376: the collaborator is built and asked for availability; a
\* dry run ends here; else the base name is made, the staging folder is
\* made and the session draws its token.
kd_init ==
    /\ rt.pc = "init"
    /\ IF world.avail # "ok"
       THEN rt' = [rt EXCEPT !.pc = "ended", !.result = "False"] /\ UNCHANGED fs
       ELSE IF dl.dry_run
       THEN rt' = [rt EXCEPT !.pc = "ended", !.result = "True"] /\ UNCHANGED fs
       ELSE /\ \E temp_id \in KdTokens :
                 rt' = [rt EXCEPT
                           !.pc = "video",
                           !.temp_id = temp_id,
                           !.filename_base =
                               safe_filename(world.title, dl.max_file_length)]
            /\ fs' = fs_makedirs(fs, dl.temp_download_folder)
    /\ kd_unchanged

\* Lines 379-411: the video stream is downloaded into the staging folder.
kd_video ==
    /\ rt.pc = "video"
    /\ IF ~dl.download_video
       THEN rt' = [rt EXCEPT !.pc = "audio"] /\ UNCHANGED fs
       ELSE IF world.video_stream = "none" \/ world.video_download # "ok"
       THEN rt' = kd_leave(rt, "False") /\ UNCHANGED fs
       ELSE /\ fs' = fs_write(fs, dl.temp_download_folder,
                              {temp_video_filename(rt)}, world.video_kind)
            /\ rt' = [rt EXCEPT !.pc = "audio",
                                !.temp_video_download_path =
                                    temp_video_filename(rt)]
    /\ kd_unchanged

\* Lines 413-473: the audio is taken from the staged video file when that
\* has an audio track, else downloaded into the staging folder, and then
\* written in the audio format into the staging folder.
kd_audio ==
    /\ rt.pc = "audio"
    /\ LET temp == dl.temp_download_folder
           extracted ==
               /\ rt.temp_video_download_path # ""
               /\ rt.temp_video_download_path \in files_in(fs, temp)
               /\ ~world.extract_raises
               /\ fs[temp][rt.temp_video_download_path] = "av"
           fs_downloaded ==
               IF extracted THEN fs
               ELSE fs_write(fs, temp, {temp_audio_filename(rt)}, "audio")
           fs_converted ==
               fs_write(fs_downloaded, temp,
                        {temp_audio_output_filename(rt)}, "audio")
       IN IF ~dl.download_audio
          THEN rt' = [rt EXCEPT !.pc = "merge"] /\ UNCHANGED fs
          ELSE IF ~extracted /\ (world.audio_stream = "none"
                                 \/ world.audio_download # "ok")
          THEN rt' = kd_leave(rt, "False") /\ UNCHANGED fs
          ELSE IF world.write_audio # "ok"
          THEN rt' = kd_leave(rt, "False") /\ fs' = fs_downloaded
          ELSE /\ fs' = fs_converted
               /\ rt' = [rt EXCEPT !.pc = "merge",
                                   !.temp_audio_download_path =
                                       temp_audio_output_filename(rt)]
    /\ kd_unchanged

\* Lines 475-514: the two staged files are muxed into a third staged file
\* when reconvert_media is set; the file to hash is the muxed one, else the
\* video, else the audio.  A mux that fails leaves its temp_audiofile.
kd_merge ==
    /\ rt.pc = "merge"
    /\ LET temp == dl.temp_download_folder
           video_staged ==
               /\ rt.temp_video_download_path # ""
               /\ rt.temp_video_download_path \in files_in(fs, temp)
           audio_staged ==
               /\ rt.temp_audio_download_path # ""
               /\ rt.temp_audio_download_path \in files_in(fs, temp)
       IN IF dl.reconvert_media /\ video_staged /\ audio_staged
          THEN IF world.merge = "load"
               THEN rt' = kd_leave(rt, "False") /\ UNCHANGED fs
               ELSE IF world.merge = "write"
               THEN /\ rt' = kd_leave(rt, "False")
                    /\ fs' = fs_write(fs, temp, {temp_audiofile(rt)}, "audio")
               ELSE /\ fs' = fs_write(fs, temp, {temp_merged_filename(rt)}, "av")
                    /\ rt' = [rt EXCEPT !.pc = "hash",
                                        !.final_file_to_hash_path =
                                            temp_merged_filename(rt)]
          ELSE IF video_staged
          THEN /\ rt' = [rt EXCEPT !.pc = "hash",
                                   !.final_file_to_hash_path =
                                       rt.temp_video_download_path]
               /\ UNCHANGED fs
          ELSE IF audio_staged
          THEN /\ rt' = [rt EXCEPT !.pc = "hash",
                                   !.final_file_to_hash_path =
                                       rt.temp_audio_download_path]
               /\ UNCHANGED fs
          ELSE rt' = kd_leave(rt, "False") /\ UNCHANGED fs
    /\ kd_unchanged

\* Lines 516-525: the staged file is hashed.
kd_hash ==
    /\ rt.pc = "hash"
    /\ LET new_content_hash ==
               calculate_file_hash(fs, dl.temp_download_folder,
                                   rt.final_file_to_hash_path)
       IN IF rt.final_file_to_hash_path
                 \notin files_in(fs, dl.temp_download_folder)
             \/ new_content_hash = ""
          THEN rt' = kd_leave(rt, "False")
          ELSE rt' = [rt EXCEPT !.pc = "commit",
                                !.new_content_hash = new_content_hash]
    /\ UNCHANGED fs
    /\ kd_unchanged

\* Lines 528-529.
target_directory ==
    IF dl.download_video \/ dl.reconvert_media
    THEN dl.video_destination_directory
    ELSE dl.audio_destination_directory
file_extension_to_check ==
    IF dl.download_video \/ dl.reconvert_media
    THEN dl.video_extension
    ELSE dl.audio_extension

\* Lines 532-550: a file of the destination that the pattern
\* "<filename_base>*.<extension>" takes has the hash of the staged file.
is_duplicate_content(f, frame) ==
    \E existing \in glob(f, target_directory,
                         frame.filename_base \o "*." \o file_extension_to_check) :
        calculate_file_hash(f, target_directory, existing)
            = frame.new_content_hash

\* Lines 554-574: the plain base when no file has it; else the base with
\* the video id, then with the id and the first counter of 1 .. 100 that
\* gives a free name; None when there is none.
final_unique_filename_base(f, frame) ==
    LET taken(base) ==
            (base \o "." \o file_extension_to_check)
                \in files_in(f, target_directory)
        initial_id_suffixed_filename_base ==
            frame.filename_base \o " [" \o extract_youtube_id(frame.url) \o "]"
        candidate(counter) ==
            IF counter = 0 THEN initial_id_suffixed_filename_base
            ELSE initial_id_suffixed_filename_base
                     \o " (" \o py_str(counter) \o ")"
        free == {counter \in 0 .. MaxSuffixCounter : ~taken(candidate(counter))}
    IN IF ~taken(frame.filename_base) THEN Some(frame.filename_base)
       ELSE IF free = {} THEN None
       ELSE Some(candidate(CHOOSE counter \in free :
                              \A other \in free : counter <= other))

\* Lines 527-608: a staged file whose hash a destination file has is
\* dropped; else the captions are saved next to the final name and the
\* staged file is moved to it.
kd_commit ==
    /\ rt.pc = "commit"
    /\ LET chosen == final_unique_filename_base(fs, rt)
           saved == IF dl.download_captions
                    THEN world.captions \ world.caption_fails ELSE {}
           fs_captioned ==
               fs_write(fs, target_directory,
                        {chosen[1] \o "." \o caption_code \o ".txt" :
                            caption_code \in saved}, "text")
           final_target == chosen[1] \o "." \o file_extension_to_check
       IN IF is_duplicate_content(fs, rt)
          THEN rt' = kd_leave(rt, "True") /\ UNCHANGED fs
          ELSE IF chosen = None
          THEN rt' = kd_leave(rt, "False") /\ UNCHANGED fs
          ELSE IF world.move # "ok"
          THEN rt' = kd_leave(rt, "False") /\ fs' = fs_captioned
          ELSE /\ fs' = fs_move(fs_captioned, dl.temp_download_folder,
                                rt.final_file_to_hash_path,
                                target_directory, final_target)
               /\ rt' = [kd_leave(rt, "True") EXCEPT
                            !.final_target = final_target]
    /\ kd_unchanged

\* The files given are removed from dir.
fs_remove_all(f, dir, names) ==
    [d \in DOMAIN f |->
        IF d = dir THEN [n \in DOMAIN f[d] \ names |-> f[d][n]] ELSE f[d]]

\* Lines 613-627, the finally clause: the staged files of the session are
\* removed; a removal that raises is logged and passed over.
kd_cleanup ==
    /\ rt.pc = "cleanup"
    /\ LET temp == dl.temp_download_folder
           staged ==
               glob(fs, temp,
                    "*" \o rt.temp_id \o "*union*" \o dl.video_extension)
               \cup glob(fs, temp, "*" \o rt.temp_id \o "*.*")
       IN fs' = IF world.remove = "ok" THEN fs_remove_all(fs, temp, staged)
                ELSE fs
    /\ rt' = [rt EXCEPT !.pc = "ended"]
    /\ kd_unchanged

\* The videos, the switches and the files the variant is run on.
KdVideos ==
    {KdPlainVideo,
     [KdPlainVideo EXCEPT !.title = "a[b]"],
     [KdPlainVideo EXCEPT !.title = ".b"],
     [KdPlainVideo EXCEPT !.title = ".b", !.merge = "write"],
     [KdPlainVideo EXCEPT !.avail = "raises"],
     [KdPlainVideo EXCEPT !.video_stream = "none"],
     [KdPlainVideo EXCEPT !.video_download = "raises"],
     [KdPlainVideo EXCEPT !.video_kind = "av"],
     [KdPlainVideo EXCEPT !.video_kind = "av", !.extract_raises = TRUE],
     [KdPlainVideo EXCEPT !.audio_stream = "none"],
     [KdPlainVideo EXCEPT !.audio_download = "raises"],
     [KdPlainVideo EXCEPT !.write_audio = "raises"],
     [KdPlainVideo EXCEPT !.merge = "load"],
     [KdPlainVideo EXCEPT !.merge = "write"],
     [KdPlainVideo EXCEPT !.merge = "write", !.remove = "raises"],
     [KdPlainVideo EXCEPT !.caption_fails = {"en"}],
     [KdPlainVideo EXCEPT !.move = "raises"],
     [KdPlainVideo EXCEPT !.remove = "raises"]}

KdContents == {"video", "av", "audio", "other"}

\* The files in the destination before the run: none, one of the plain
\* name, or one of the plain name and one of the name with the video id.
KdDestinations(base, extension) ==
    {<<>>}
    \cup {(base \o "." \o extension) :> content : content \in KdContents}
    \cup {(base \o "." \o extension) :> content
          @@ (base \o " [" \o TokenA \o "]." \o extension) :> "other" :
             content \in KdContents}

\* The staging folder before the run: empty, or with a file another
\* session left.
KdStaged == {<<>>, "ab_T2.mp4" :> "video"}

KdInit ==
    /\ \E dry, video, audio, captions, reconvert \in BOOLEAN :
          dl = [KdDownloader EXCEPT !.dry_run = dry,
                                    !.download_video = video,
                                    !.download_audio = audio,
                                    !.download_captions = captions,
                                    !.reconvert_media = reconvert]
    /\ world \in KdVideos
    /\ \E staged \in KdStaged :
       \E files \in KdDestinations(safe_filename(world.title, dl.max_file_length),
                                   file_extension_to_check) :
          fs = (KdTempFolder :> staged
                @@ target_directory :> files
                @@ (IF target_directory = DefaultVideoDir
                    THEN DefaultAudioDir ELSE DefaultVideoDir) :> <<>>)
    /\ tm = task_manager_of(DefaultDownloader)
    /\ rows = <<>>
    /\ now = MaxClock
    /\ at = AtIdle
    /\ ops = 0
    /\ run = KdRunIdle
    /\ bd = BdIdle
    /\ rt = KdIdle
    /\ log = <<>>

\* The routine is not at work.
kd_routine_at_rest == rt.pc \in {"idle", "ended"}

\* Lines 1018-1027: run() passes video_urls to _download_videos_from_list.
kd_run(video_urls, playlist_urls) ==
    /\ run.pc = "idle"
    /\ rt.pc = "idle"
    /\ run' = [KdRunIdle EXCEPT !.pc = "videos",
                                !.playlist_urls = playlist_urls,
                                !.videos = video_urls]
    /\ UNCHANGED <<rows, now, fs, tm, at, ops, dl, world, bd, rt, log>>

\* Lines 629-663, one turn of the loop of _download_videos_from_list: the
\* routine is called with the next video, and what it returns is dropped.
kd_download_videos_from_list ==
    /\ run.pc \in {"videos", "playlist_videos"}
    /\ run.videos # <<>>
    /\ kd_routine_at_rest
    /\ rt' = [KdIdle EXCEPT !.pc = "init", !.url = Head(run.videos)]
    /\ run' = [run EXCEPT !.videos = Tail(@)]
    /\ UNCHANGED <<rows, now, fs, tm, at, ops, dl, world, bd, log>>

\* Lines 1029-1033: after the videos the two destination directories are
\* kept aside and the playlists begin.  The downloader is as constructed:
\* channels and searches are switched off (lines 138-139).
kd_run_playlists ==
    /\ run.pc = "videos"
    /\ run.videos = <<>>
    /\ kd_routine_at_rest
    /\ ~dl.enable_channel_download /\ ~dl.enable_quick_search_download
    /\ run' = IF dl.enable_playlist_download
              THEN [run EXCEPT
                       !.pc = "playlists", !.k = 1,
                       !.original_global_video_dst = dl.video_destination_directory,
                       !.original_global_audio_dst = dl.audio_destination_directory]
              ELSE [run EXCEPT !.pc = "done"]
    /\ UNCHANGED <<rows, now, fs, tm, at, ops, dl, world, bd, rt, log>>

\* Lines 1035-1071, one playlist: the two destination directories are set
\* after its title and made, and its videos are passed to
\* _download_videos_from_list.  A playlist whose title raises leaves the
\* directories as they are; one whose videos raise leaves them set.
kd_run_playlist ==
    /\ run.pc = "playlists"
    /\ run.k <= Len(run.playlist_urls)
    /\ LET playlist == Playlists[run.playlist_urls[run.k]]
           safe_title == safe_filename(playlist.title, dl.max_file_length)
           video_dir == path_join(dl.base_path, safe_title)
           audio_dir == path_join(dl.base_path, safe_title \o "-Audio")
       IN IF playlist.raises = "title"
          THEN /\ run' = [run EXCEPT !.k = @ + 1]
               /\ UNCHANGED <<dl, fs>>
          ELSE /\ dl' = [dl EXCEPT !.video_destination_directory = video_dir,
                                   !.audio_destination_directory = audio_dir]
               /\ fs' = fs_makedirs(fs_makedirs(fs, video_dir), audio_dir)
               /\ run' = IF playlist.raises = "videos"
                         THEN [run EXCEPT !.k = @ + 1]
                         ELSE [run EXCEPT
                                  !.pc = "playlist_videos",
                                  !.videos =
                                      [i \in 1 .. Len(playlist.videos) |->
                                          watch_url(playlist.videos[i])]]
    /\ UNCHANGED <<rows, now, tm, at, ops, world, bd, rt, log>>

\* Line 1054 returns: the videos of the playlist are done.
kd_run_playlist_done ==
    /\ run.pc = "playlist_videos"
    /\ run.videos = <<>>
    /\ kd_routine_at_rest
    /\ run' = [run EXCEPT !.pc = "playlists", !.k = @ + 1]
    /\ UNCHANGED <<rows, now, fs, tm, at, ops, dl, world, bd, rt, log>>

\* Lines 1073-1075: the two destination directories are set back.
kd_run_end ==
    /\ run.pc = "playlists"
    /\ run.k > Len(run.playlist_urls)
    /\ dl' = [dl EXCEPT
                 !.video_destination_directory = run.original_global_video_dst,
                 !.audio_destination_directory = run.original_global_audio_dst]
    /\ run' = [run EXCEPT !.pc = "done"]
    /\ UNCHANGED <<rows, now, fs, tm, at, ops, world, bd, rt, log>>

\* The lists run() is started with.
KdVideoUrls == {<<>>, <<UrlA>>}
KdPlaylistUrls == {<<PlaylistUrl>>, <<PlaylistGone, PlaylistUrl>>, <<PlaylistBroken>>}

KdNext ==
    \/ kd_call(UrlA)
    \/ \E video_urls \in KdVideoUrls, playlist_urls \in KdPlaylistUrls :
          kd_run(video_urls, playlist_urls)
    \/ kd_download_videos_from_list
    \/ kd_run_playlists
    \/ kd_run_playlist
    \/ kd_run_playlist_done
    \/ kd_run_end
    \/ kd_init
    \/ kd_video
    \/ kd_audio
    \/ kd_merge
    \/ kd_hash
    \/ kd_commit
    \/ kd_cleanup

KdSpec == KdInit /\ [][KdNext]_vars

\* The directories of f other than the staging folder, with their files.
destination_files(f) == [dir \in DOMAIN f \ {KdTempFolder} |-> f[dir]]

\* name is the title base, anything, a dot and the extension.
matches_title_base(name) ==
    LET tail == "." \o file_extension_to_check
    IN /\ Len(name) >= Len(rt.filename_base) + Len(tail)
       /\ SubSeq(name, 1, Len(rt.filename_base)) = rt.filename_base
       /\ SubSeq(name, Len(name) - Len(tail) + 1, Len(name)) = tail

\* A destination file that matches the title base has the hash of the
\* staged file.
same_hash_in_destination ==
    \E name \in files_in(fs, target_directory) :
        /\ matches_title_base(name)
        /\ calculate_file_hash(fs, target_directory, name) = rt.new_content_hash

\* C36: in the content-hash variant the destination directories stay as
\* they are until the staged file has been hashed; when a destination file
\* matching the title base has the hash of the staged file, nothing is
\* added and True is returned; otherwise a run that returns True has moved
\* the staged file to "<base>.<ext>" when that name was free and else to a
\* name "<base> [<video id>]...", a name no file had, and has left every
\* file that was there as it was.
C36_StagedFileGoesToAFreeName ==
    [][/\ rt.pc \in {"init", "video", "audio", "merge", "hash"} =>
             destination_files(fs') = destination_files(fs)
       /\ rt.pc = "commit" =>
             IF same_hash_in_destination
             THEN /\ destination_files(fs') = destination_files(fs)
                  /\ rt'.result = "True"
             ELSE rt'.result = "True" =>
                  LET plain == rt.filename_base \o "." \o file_extension_to_check
                      with_id == rt.filename_base \o " ["
                                     \o extract_youtube_id(rt.url) \o "]"
                      target == rt'.final_target
                  IN /\ target \notin files_in(fs, target_directory)
                     /\ target \in files_in(fs', target_directory)
                     /\ calculate_file_hash(fs', target_directory, target)
                            = rt.new_content_hash
                     /\ IF plain \notin files_in(fs, target_directory)
                        THEN target = plain
                        ELSE SubSeq(target, 1, Len(with_id)) = with_id
                     /\ \A name \in files_in(fs, target_directory) :
                           fs'[target_directory][name]
                               = fs[target_directory][name]]_vars

\* C37: in the content-hash variant a run that has drawn its session token
\* ends only through the cleanup, whatever it returns; the cleanup leaves
\* the destination directories as they are and removes from the staging
\* folder only files whose name holds the token; and when the removals
\* succeed no file whose name holds the token is left in the staging
\* folder.
C37_CleanupTakesTheSessionsFiles ==
    [][(rt.pc # "ended" /\ rt'.pc = "ended" /\ rt'.temp_id # "") =>
          /\ rt.pc = "cleanup"
          /\ destination_files(fs') = destination_files(fs)
          /\ \A name \in files_in(fs, KdTempFolder) :
                IF name \in files_in(fs', KdTempFolder)
                THEN fs'[KdTempFolder][name] = fs[KdTempFolder][name]
                ELSE occurs_in(rt.temp_id, name)
          /\ files_in(fs', KdTempFolder) \subseteq files_in(fs, KdTempFolder)
          /\ world.remove = "ok" =>
                \A name \in files_in(fs', KdTempFolder) :
                    ~occurs_in(rt.temp_id, name)]_vars

\* For a title without a leading dot: a mux has failed in the session of
\* token T1 with three files staged, the run has ended with False, none of
\* the files is left, and the file of another session is.
C37_Witness ==
    /\ rt.pc = "ended" /\ rt.result = "False"
    /\ rt.temp_id = "T1"
    /\ world.merge = "write" /\ world.remove = "ok"
    /\ rt.temp_video_download_path # ""
    /\ rt.temp_audio_download_path # ""
    /\ files_in(fs, KdTempFolder) = {"ab_T2.mp4"}
====
